---- MODULE Spec2Model ----
(***************************************************************************)
(* A model of pyclef: the CLEF field classifier (ClefParser.parse_event),  *)
(* the streaming line parser (ClefParser.iter_events / parse) and the      *)
(* filter builder (pyclef.filter.ClefEventFilterBuilder).                  *)
(*                                                                         *)
(* Strings are tuples of one-character strings, so that prefix tests,      *)
(* slicing and replacement are computed as the code computes them.         *)
(* A JSON value is a tagged record; a dict is a function whose domain is   *)
(* its key set.                                                            *)
(***************************************************************************)
EXTENDS Integers, Sequences, FiniteSets, TLC

VARIABLES
    \* ---- ClefParser.parse_event (pyclef/parser.py:250-262)
    src,          \* the decoded JSON object: its (key, value) items in order
    pos,          \* number of items the for loop has consumed
    reified,      \* local dict `reified`
    user,         \* local dict `user`
    cpc,          \* "loop" while iterating, "returned" after `return ClefEvent(..)`
    \* ---- ClefParser.iter_events / parse (pyclef/parser.py:232-267)
    fs,           \* the file: "ok", "missing", "unreadable" (open() fails with
                  \* another OSError) or "broken" (a read fails with an OSError)
    lines,        \* the physical lines of the file
    mode,         \* the caller: "parse" (bulk) or "iter" (streaming consumer)
    gen,          \* generator: "created", "suspended", "finished", "raised", "closed"
    line_num,     \* enumerate(f, 1): the number of the last line read
    fopen,        \* TRUE while the file handle of the with block is open
    yielded,      \* events the generator has yielded so far
    ret,          \* what parse() returned to its caller (None until then)
    perr,         \* the exception that left iter_events / parse (None if none)
    \* ---- pyclef.filter.ClefEventFilterBuilder (pyclef/filter.py:81-538)
    events,       \* builder.events: the source collection
    cfg,          \* the nine criterion attributes of the builder
    calls,        \* number of setter calls made on this builder
    fpc,          \* "config"; after filter(): "returned" or "raised"
    fidx,         \* number of events the last filter() evaluated
    filtered,     \* local collection `filtered` / the returned collection
    skipped_count,\* local counter `skipped_count`
    warned,       \* the warnings.warn calls of the last setter or filter() call
    ferr,         \* the exception raised by the last setter or filter() call
    \* ---- the caller of the builder
    history,      \* the setter calls made on the builder: <<name, argument>>
    chain,        \* what the caller got back from its last setter call:
                  \* "self" (the builder), "none" when it raised or before
                  \* any call
    \* ---- the builder ClefParser.event_filter returns (pyclef/parser.py:18-114)
    pcfg,         \* its nine criterion attributes
    pfpc,         \* "config"; after filter(): "returned" or "raised"
    pfiltered,    \* the collection its filter() returned
    pferr,        \* the exception raised by its last setter or filter() call
    \* ---- pyclef.collection.ClefEventCollection (pyclef/collection.py:49-170)
    lists,        \* the list objects: lists[id] is the content of list id
    coll,         \* collection S: the id of its _events list
    sliced,       \* the collection the last S[slice] or S.filter(predicate)
                  \* returned: the id of its _events list (0 before any)
    got,          \* the index the caller uses on S and, if the last call on S
                  \* or on the slice was S[index], what it returned or raised
    added,        \* the events given to S.add_event, in call order
    copied,       \* the list the last S.get_all_events() returned: its id (0
                  \* before any)
    \* ---- the collection objects filter() creates (pyclef/filter.py:415)
    made,         \* number of collections filter() has created
    result        \* the collection the caller got from the last filter() that
                  \* returned: its number among those created (0 if none)

cvars == <<src, pos, reified, user, cpc>>
pvars == <<fs, lines, mode, gen, line_num, fopen, yielded, ret, perr>>
fvars == <<events, cfg, calls, fpc, fidx, filtered, skipped_count, warned, ferr>>
hvars == <<history, chain>>
evars == <<pcfg, pfpc, pfiltered, pferr>>
kvars == <<lists, coll, sliced, got, added, copied>>
rvars == <<made, result>>
vars == <<cvars, pvars, fvars, hvars, evars, kvars, rvars>>

-----------------------------------------------------------------------------
(* Values                                                                  *)

S(s) == [ty |-> "str", v |-> s]
N(n) == [ty |-> "int", v |-> n]
\* Python None: JSON null, and what dict.get returns for a missing key.
None == [ty |-> "null", v |-> 0]

EmptyDict == [k \in {} |-> None]

\* d[k] = v
Put(d, k, v) == [x \in DOMAIN d \cup {k} |-> IF x = k THEN v ELSE d[x]]

\* d.get(k)
Get(d, k) == IF k \in DOMAIN d THEN d[k] ELSE None

\* d.get(k, '')
GetOrEmpty(d, k) == IF k \in DOMAIN d THEN d[k] ELSE S(<<>>)

\* s.startswith(p)
StartsWith(s, p) == Len(s) >= Len(p) /\ SubSeq(s, 1, Len(p)) = p

-----------------------------------------------------------------------------
(* pyclef/parser.py: ClefField, ClefParser.REIFIED_KEYS, parse_event       *)

TIMESTAMP == <<"@", "t">>
MESSAGE == <<"@", "m">>
MESSAGE_TEMPLATE == <<"@", "m", "t">>
LEVEL == <<"@", "l">>
EXCEPTION == <<"@", "x">>
EVENT_ID == <<"@", "i">>
RENDERINGS == <<"@", "r">>

REIFIED_KEYS ==
    {TIMESTAMP, MESSAGE, MESSAGE_TEMPLATE, LEVEL, EXCEPTION, EVENT_ID, RENDERINGS}

UNESCAPE_PREFIX == <<"@", "@">>

ClefEvent(r, u) == [reified |-> r, user |-> u]

\* StoredKey with the whole escape prefix dropped (k[2:] for k[1:]).
StoredKey_DropsPrefix(k) ==
    IF k \in REIFIED_KEYS THEN k
    ELSE IF StartsWith(k, UNESCAPE_PREFIX) THEN Tail(Tail(k))
    ELSE k

\* The key under which the body of the loop stores source key k: k[1:] for an
\* escaped key, k itself otherwise.
StoredKey(k) ==
    IF k \in REIFIED_KEYS THEN k
    ELSE IF StartsWith(k, UNESCAPE_PREFIX) THEN Tail(k)
    ELSE k

\* ClassifyItem with the `elif` written as `if`: a wire key is stored in
\* reified and then falls through to the user branches as well.
ClassifyItem_FallsThrough(ev, k, v) ==
    IF k \in REIFIED_KEYS
    THEN ClefEvent(Put(ev.reified, k, v), Put(ev.user, k, v))
    ELSE ClefEvent(ev.reified,
                   Put(ev.user, IF StartsWith(k, UNESCAPE_PREFIX) THEN Tail(k) ELSE k, v))

\* One iteration of `for k, v in event.items()` on the pair of dicts ev.
ClassifyItem(ev, k, v) ==
    IF k \in REIFIED_KEYS
    THEN ClefEvent(Put(ev.reified, k, v), ev.user)
    ELSE ClefEvent(ev.reified, Put(ev.user, StoredKey(k), v))

RECURSIVE ClassifyFrom(_, _, _)
ClassifyFrom(ev, items, i) ==
    IF i > Len(items) THEN ev
    ELSE ClassifyFrom(ClassifyItem(ev, items[i][1], items[i][2]), items, i + 1)

\* ClefParser.parse_event(event), event given as its items in order.
ParseEvent(items) == ClassifyFrom(ClefEvent(EmptyDict, EmptyDict), items, 1)

-----------------------------------------------------------------------------
(* Inputs of the classifier                                                *)

MaxKeys == 3

ClassifyKeys ==
    { TIMESTAMP, <<"@", "@", "t">>,
      <<"@", "@", "F">>, <<"@", "F">>, <<"F">>, <<"@", "@", "@", "F">> }

ClassifyValues == {N(1), N(2)}

\* Decoded JSON objects: items with pairwise distinct keys.
Objects(keys, vals, n) ==
    UNION { { s \in [1..m -> keys \X vals] :
                \A i, j \in 1..m : i # j => s[i][1] # s[j][1] } : m \in 0..n }

SrcKeys == { src[i][1] : i \in 1..Len(src) }

-----------------------------------------------------------------------------
(* pyclef/parser.py: iter_events and parse                                 *)
(*                                                                         *)
(* A physical line is a sequence of tokens: a whitespace character, or the *)
(* text of one JSON document, which is the text of an object (with the     *)
(* items it decodes to), the text of a JSON value that is no object, or    *)
(* text that is not JSON.                                                  *)

Ws == [kind |-> "ws", items |-> <<>>]
ObjText(items) == [kind |-> "object", items |-> items]
ScalarText == [kind |-> "scalar", items |-> <<>>]
BadText == [kind |-> "malformed", items |-> <<>>]

RECURSIVE LStrip(_)
LStrip(s) == IF s # <<>> /\ Head(s) = Ws THEN LStrip(Tail(s)) ELSE s

RECURSIVE RStrip(_)
RStrip(s) ==
    IF s # <<>> /\ s[Len(s)] = Ws THEN RStrip(SubSeq(s, 1, Len(s) - 1)) ELSE s

\* The line used as read, with no strip() at all.
Strip_Nothing(s) == s

\* line.strip()
Strip(s) == RStrip(LStrip(s))

\* json.loads(text): the decoded value, or JSONDecodeError. Whitespace around
\* the one document is accepted; no document, or text after it, is an error.
JsonLoads(text) ==
    LET doc == RStrip(LStrip(text))
    IN IF Len(doc) = 1 /\ doc[1].kind = "object"
       THEN [ok |-> TRUE, isdict |-> TRUE, items |-> doc[1].items]
       ELSE IF Len(doc) = 1 /\ doc[1].kind = "scalar"
       THEN [ok |-> TRUE, isdict |-> FALSE, items |-> <<>>]
       ELSE [ok |-> FALSE, isdict |-> FALSE, items |-> <<>>]

\* Exceptions: the module and class of the exception, the line number its
\* message reports (0 if none), the attributes set on it besides the message
\* and the class of its __cause__.
NoError == [module |-> "", type |-> "", msg_line |-> 0, attrs |-> {}, cause |-> ""]

\* The error of parser.py:244 with the 0-based index of the line in the message.
InvalidJsonError_ZeroBased(n) ==
    [ module |-> "pyclef.parser", type |-> "ClefParseError", msg_line |-> n - 1,
      attrs |-> {}, cause |-> "JSONDecodeError" ]

\* raise ClefParseError(f"Invalid JSON on line {line_num}: {e}") from e
InvalidJsonError(n) ==
    [ module |-> "pyclef.parser", type |-> "ClefParseError", msg_line |-> n,
      attrs |-> {}, cause |-> "JSONDecodeError" ]

\* event.items() on a decoded value that is no dict: not caught by any handler
\* of iter_events.
NotADictError ==
    [ module |-> "builtins", type |-> "AttributeError", msg_line |-> 0,
      attrs |-> {}, cause |-> "" ]

\* raise ClefFileNotFoundError(self._file_path) from e
FileNotFound ==
    [ module |-> "pyclef.parser", type |-> "ClefFileNotFoundError", msg_line |-> 0,
      attrs |-> {"file_path"}, cause |-> "FileNotFoundError" ]

\* raise ClefIOError(self._file_path, e) from e
FileIOError ==
    [ module |-> "pyclef.parser", type |-> "ClefIOError", msg_line |-> 0,
      attrs |-> {"file_path", "original_error"}, cause |-> "OSError" ]

NoEvent == ClefEvent(EmptyDict, EmptyDict)

\* GenRun that skips a line json.loads rejects and goes on with the next one.
RECURSIVE GenRun_SkipsBadLine(_, _)
GenRun_SkipsBadLine(ls, n) ==
    IF n = Len(ls)
    THEN [st |-> "stop", line_num |-> n, ev |-> NoEvent, err |-> NoError]
    ELSE LET line == Strip(ls[n + 1])
             dec == JsonLoads(line)
         IN IF line = <<>> THEN GenRun_SkipsBadLine(ls, n + 1)
            ELSE IF ~dec.ok THEN GenRun_SkipsBadLine(ls, n + 1)
            ELSE IF ~dec.isdict
            THEN [st |-> "raise", line_num |-> n + 1, ev |-> NoEvent, err |-> NotADictError]
            ELSE [st |-> "yield", line_num |-> n + 1, ev |-> ParseEvent(dec.items),
                  err |-> NoError]

\* GenRun reading the line after an event line before it yields the event.
RECURSIVE GenRun_ReadsAhead(_, _)
GenRun_ReadsAhead(ls, n) ==
    IF n = Len(ls)
    THEN [st |-> "stop", line_num |-> n, ev |-> NoEvent, err |-> NoError]
    ELSE LET line == Strip(ls[n + 1])
             dec == JsonLoads(line)
         IN IF line = <<>> THEN GenRun_ReadsAhead(ls, n + 1)
            ELSE IF ~dec.ok
            THEN [st |-> "raise", line_num |-> n + 1, ev |-> NoEvent,
                  err |-> InvalidJsonError(n + 1)]
            ELSE IF ~dec.isdict
            THEN [st |-> "raise", line_num |-> n + 1, ev |-> NoEvent, err |-> NotADictError]
            ELSE [st |-> "yield", line_num |-> IF n + 2 <= Len(ls) THEN n + 2 ELSE n + 1,
                  ev |-> ParseEvent(dec.items), err |-> NoError]

\* The body of the for loop of iter_events, run from the point where n lines
\* have been read up to the next yield, raise or the end of the file.
RECURSIVE GenRun(_, _)
GenRun(ls, n) ==
    IF n = Len(ls)
    THEN [st |-> "stop", line_num |-> n, ev |-> NoEvent, err |-> NoError]
    ELSE LET line == Strip(ls[n + 1])
             dec == JsonLoads(line)
         IN IF line = <<>> THEN GenRun(ls, n + 1)
            ELSE IF ~dec.ok
            THEN [st |-> "raise", line_num |-> n + 1, ev |-> NoEvent,
                  err |-> InvalidJsonError(n + 1)]
            ELSE IF ~dec.isdict
            THEN [st |-> "raise", line_num |-> n + 1, ev |-> NoEvent, err |-> NotADictError]
            ELSE [st |-> "yield", line_num |-> n + 1, ev |-> ParseEvent(dec.items),
                  err |-> NoError]

\* What parse() has handed to its caller: nothing, or the collection.
NoCollection == [returned |-> FALSE, events |-> <<>>]
Collection(evs) == [returned |-> TRUE, events |-> evs]

-----------------------------------------------------------------------------
(* pyclef/filter.py: timestamps, patterns and the criteria of one event    *)

D(d) == [ty |-> "dict", v |-> d]

\* bool(v) of Python for the values of the model.
Truthy(v) ==
    CASE v.ty = "null" -> FALSE
      [] v.ty = "str" -> v.v # <<>>
      [] v.ty = "int" -> v.v # 0
      [] v.ty = "dict" -> DOMAIN v.v # {}
      [] OTHER -> TRUE

DigitChars == <<"0", "1", "2", "3", "4", "5", "6", "7", "8", "9">>

\* str(v)
Str(v) ==
    CASE v.ty = "str" -> v.v
      [] v.ty = "int" -> <<DigitChars[v.v + 1]>>
      [] v.ty = "null" -> <<"N", "o", "n", "e">>
      [] OTHER -> <<"{", "}">>

\* A timestamp string is written as one digit (the wall-clock time) followed
\* by nothing (no offset), by "Z", or by "+" (standing for "+00:00").
\* t.replace('Z', '+00:00')
ReplaceZ(s) == [i \in 1..Len(s) |-> IF s[i] = "Z" THEN "+" ELSE s[i]]

DigitValue(c) == CHOOSE n \in 0..9 : DigitChars[n + 1] = c

IsDigit(c) == \E n \in 0..9 : DigitChars[n + 1] = c

\* ClefEventFilterBuilder._parse_time(t): the datetime, or ValueError (also
\* for a value that has no replace method).
ParseTime(val) ==
    IF val.ty # "str" THEN [ok |-> FALSE, wall |-> 0, aware |-> FALSE]
    ELSE LET s == ReplaceZ(val.v)
         IN IF Len(s) = 1 /\ IsDigit(s[1])
            THEN [ok |-> TRUE, wall |-> DigitValue(s[1]), aware |-> FALSE]
            ELSE IF Len(s) = 2 /\ IsDigit(s[1]) /\ s[2] = "+"
            THEN [ok |-> TRUE, wall |-> DigitValue(s[1]), aware |-> TRUE]
            ELSE [ok |-> FALSE, wall |-> 0, aware |-> FALSE]

\* Ordering two datetimes raises TypeError when exactly one has an offset.
Comparable(a, b) == a.aware = b.aware

\* re.compile(p) fails for an unterminated "[" and for a leading "*".
Compiles(p) ==
    /\ \A i \in 1..Len(p) : p[i] # "["
    /\ (p # <<>> => p[1] # "*")

\* The pattern matched at the start of text: literals, "." and a postfix "*".
RECURSIVE MatchHere(_, _)
MatchHere(re, text) ==
    IF re = <<>> THEN TRUE
    ELSE IF Len(re) >= 2 /\ re[2] = "*"
    THEN \E k \in 0..Len(text) :
            /\ \A i \in 1..k : re[1] = "." \/ re[1] = text[i]
            /\ MatchHere(SubSeq(re, 3, Len(re)), SubSeq(text, k + 1, Len(text)))
    ELSE /\ text # <<>>
         /\ (re[1] = "." \/ re[1] = text[1])
         /\ MatchHere(Tail(re), Tail(text))

\* pattern.search(text): a match starting anywhere in text.
Search(re, text) ==
    \E i \in 0..Len(text) : MatchHere(re, SubSeq(text, i + 1, Len(text)))

PatternFields ==
    << <<"msg_pattern", MESSAGE>>, <<"msg_template_pattern", MESSAGE_TEMPLATE>>,
       <<"exception_pattern", EXCEPTION>>, <<"renderings_pattern", RENDERINGS>> >>

\* TimeCheck counting an event without a timestamp as skipped.
TimeCheck_MissingIsSkipped(e, c) ==
    IF ~(Truthy(c.start_time) \/ Truthy(c.end_time)) THEN "next"
    ELSE LET event_time == Get(e.reified, TIMESTAMP)
             event_dt == ParseTime(event_time)
             start_dt == ParseTime(c.start_time)
             end_dt == ParseTime(c.end_time)
         IN IF ~Truthy(event_time) THEN "skip"
            ELSE IF ~event_dt.ok THEN "skip"
            ELSE IF Truthy(c.start_time) /\ ~start_dt.ok THEN "skip"
            ELSE IF Truthy(c.start_time) /\ ~Comparable(event_dt, start_dt) THEN "error"
            ELSE IF Truthy(c.start_time) /\ event_dt.wall < start_dt.wall THEN "exclude"
            ELSE IF Truthy(c.end_time) /\ ~end_dt.ok THEN "skip"
            ELSE IF Truthy(c.end_time) /\ ~Comparable(event_dt, end_dt) THEN "error"
            ELSE IF Truthy(c.end_time) /\ event_dt.wall > end_dt.wall THEN "exclude"
            ELSE "next"

\* LevelCheck letting an event without a level pass.
LevelCheck_MissingPasses(e, c) ==
    ~(Truthy(c.level) /\ Get(e.reified, LEVEL) # None /\ Get(e.reified, LEVEL) # c.level)

\* EventIdCheck taking a falsy event id (0, "") as no criterion.
EventIdCheck_FalsyIsUnset(e, c) ==
    ~(Truthy(c.eventid) /\ Get(e.reified, EVENT_ID) # c.eventid)

\* PatternCheck excluding every event that lacks the field.
PatternCheck_MissingFails(e, c, i) ==
    c[PatternFields[i][1]] # None =>
        /\ PatternFields[i][2] \in DOMAIN e.reified
        /\ Search(c[PatternFields[i][1]].v, Str(GetOrEmpty(e.reified, PatternFields[i][2])))

\* TimeCheck with an event timestamp that cannot be ordered against a bound
\* (one with, one without an offset) taken as out of range.
TimeCheck_MismatchExcludes(e, c) ==
    IF ~(Truthy(c.start_time) \/ Truthy(c.end_time)) THEN "next"
    ELSE LET event_time == Get(e.reified, TIMESTAMP)
             event_dt == ParseTime(event_time)
             start_dt == ParseTime(c.start_time)
             end_dt == ParseTime(c.end_time)
         IN IF ~Truthy(event_time) THEN "exclude"
            ELSE IF ~event_dt.ok THEN "skip"
            ELSE IF Truthy(c.start_time) /\ ~start_dt.ok THEN "skip"
            ELSE IF Truthy(c.start_time) /\ ~Comparable(event_dt, start_dt) THEN "exclude"
            ELSE IF Truthy(c.start_time) /\ event_dt.wall < start_dt.wall THEN "exclude"
            ELSE IF Truthy(c.end_time) /\ ~end_dt.ok THEN "skip"
            ELSE IF Truthy(c.end_time) /\ ~Comparable(event_dt, end_dt) THEN "exclude"
            ELSE IF Truthy(c.end_time) /\ event_dt.wall > end_dt.wall THEN "exclude"
            ELSE "next"

\* The time-based part of the loop body (filter.py:431-454): "next" when the
\* event goes on to the other criteria, "exclude" for a plain continue, "skip"
\* for the continue of the inner handler (invalid event timestamp) and
\* "error" for a TypeError, which only the outer handler catches.
TimeCheck(e, c) ==
    IF ~(Truthy(c.start_time) \/ Truthy(c.end_time)) THEN "next"
    ELSE LET event_time == Get(e.reified, TIMESTAMP)
             event_dt == ParseTime(event_time)
             start_dt == ParseTime(c.start_time)
             end_dt == ParseTime(c.end_time)
         IN IF ~Truthy(event_time) THEN "exclude"
            ELSE IF ~event_dt.ok THEN "skip"
            ELSE IF Truthy(c.start_time) /\ ~start_dt.ok THEN "skip"
            ELSE IF Truthy(c.start_time) /\ ~Comparable(event_dt, start_dt) THEN "error"
            ELSE IF Truthy(c.start_time) /\ event_dt.wall < start_dt.wall THEN "exclude"
            ELSE IF Truthy(c.end_time) /\ ~end_dt.ok THEN "skip"
            ELSE IF Truthy(c.end_time) /\ ~Comparable(event_dt, end_dt) THEN "error"
            ELSE IF Truthy(c.end_time) /\ event_dt.wall > end_dt.wall THEN "exclude"
            ELSE "next"

\* filter.py:457
LevelCheck(e, c) == ~(Truthy(c.level) /\ Get(e.reified, LEVEL) # c.level)

\* filter.py:461-498, one of the four pattern criteria
PatternCheck(e, c, i) ==
    c[PatternFields[i][1]] # None =>
        Search(c[PatternFields[i][1]].v, Str(GetOrEmpty(e.reified, PatternFields[i][2])))

\* filter.py:501-507
UserFieldsCheck(e, c) ==
    Truthy(c.user_fields) =>
        \A k \in DOMAIN c.user_fields.v : Get(e.user, k) = c.user_fields.v[k]

\* filter.py:510-512
EventIdCheck(e, c) == ~(c.eventid # None /\ Get(e.reified, EVENT_ID) # c.eventid)

\* EvalEvent with the level criterion shadowing the message pattern (the
\* message check written as an elif of the level check).
EvalEvent_LevelShadowsMessage(e, c) ==
    LET t == TimeCheck(e, c)
    IN IF t # "next" THEN t
       ELSE IF ~LevelCheck(e, c) THEN "exclude"
       ELSE IF ~Truthy(c.level) /\ ~PatternCheck(e, c, 1) THEN "exclude"
       ELSE IF \E i \in 2..4 : ~PatternCheck(e, c, i) THEN "exclude"
       ELSE IF ~UserFieldsCheck(e, c) THEN "exclude"
       ELSE IF ~EventIdCheck(e, c) THEN "exclude"
       ELSE "pass"

\* EvalEvent with exclusive time bounds (<= and >= for < and >).
EvalEvent_ExclusiveBounds(e, c) ==
    LET t == TimeCheck(e, c)
        event_dt == ParseTime(Get(e.reified, TIMESTAMP))
    IN IF t # "next" THEN t
       ELSE IF Truthy(c.start_time) /\ event_dt.wall = ParseTime(c.start_time).wall
       THEN "exclude"
       ELSE IF Truthy(c.end_time) /\ event_dt.wall = ParseTime(c.end_time).wall
       THEN "exclude"
       ELSE IF ~LevelCheck(e, c) THEN "exclude"
       ELSE IF \E i \in 1..4 : ~PatternCheck(e, c, i) THEN "exclude"
       ELSE IF ~UserFieldsCheck(e, c) THEN "exclude"
       ELSE IF ~EventIdCheck(e, c) THEN "exclude"
       ELSE "pass"

\* The body of the for loop of filter() for one event (filter.py:429-524):
\* "pass" (add_event), "exclude" (continue), "skip" (skipped_count += 1 in an
\* inner handler) or "error" (the handler of line 517).
EvalEvent(e, c) ==
    LET t == TimeCheck(e, c)
    IN IF t # "next" THEN t
       ELSE IF ~LevelCheck(e, c) THEN "exclude"
       ELSE IF \E i \in 1..4 : ~PatternCheck(e, c, i) THEN "exclude"
       ELSE IF ~UserFieldsCheck(e, c) THEN "exclude"
       ELSE IF ~EventIdCheck(e, c) THEN "exclude"
       ELSE "pass"

Warning(kind, n) == [kind |-> kind, n |-> n]

\* FilterLoop putting each event that passes in front of the earlier ones.
RECURSIVE FilterLoop_Prepends(_, _, _, _)
FilterLoop_Prepends(evs, c, i, acc) ==
    IF i > Len(evs) THEN acc
    ELSE LET o == EvalEvent(evs[i], c)
         IN FilterLoop_Prepends(evs, c, i + 1,
              [ filtered |-> IF o = "pass" THEN <<evs[i]>> \o acc.filtered
                             ELSE acc.filtered,
                skipped |-> IF o \in {"skip", "error"} THEN acc.skipped + 1
                            ELSE acc.skipped,
                warned |-> CASE o = "skip" ->
                                  Append(acc.warned, Warning("invalid_timestamp", 0))
                             [] o = "error" ->
                                  Append(acc.warned, Warning("unexpected", 0))
                             [] OTHER -> acc.warned,
                evaluated |-> acc.evaluated + 1 ])

\* The for loop of filter() from event i on (filter.py:428-524).
RECURSIVE FilterLoop(_, _, _, _)
FilterLoop(evs, c, i, acc) ==
    IF i > Len(evs) THEN acc
    ELSE LET o == EvalEvent(evs[i], c)
         IN FilterLoop(evs, c, i + 1,
              [ filtered |-> IF o = "pass" THEN Append(acc.filtered, evs[i])
                             ELSE acc.filtered,
                skipped |-> IF o \in {"skip", "error"} THEN acc.skipped + 1
                            ELSE acc.skipped,
                warned |-> CASE o = "skip" ->
                                  Append(acc.warned, Warning("invalid_timestamp", 0))
                             [] o = "error" ->
                                  Append(acc.warned, Warning("unexpected", 0))
                             [] OTHER -> acc.warned,
                evaluated |-> acc.evaluated + 1 ])

\* The validation of the range with >= for > (start equal to end rejected).
RangeCheck_RejectsEqual(c) ==
    IF ~(Truthy(c.start_time) /\ Truthy(c.end_time)) THEN "ok"
    ELSE LET start == ParseTime(c.start_time)
             end == ParseTime(c.end_time)
         IN IF ~start.ok \/ ~end.ok THEN "failed"
            ELSE IF ~Comparable(start, end) THEN "failed"
            ELSE IF start.wall >= end.wall THEN "inverted"
            ELSE "ok"

\* filter.py:420-426: "inverted" raises the ClefFilterError of line 424;
\* "failed" is any other exception, re-raised as ClefFilterError at line 538.
RangeCheck(c) ==
    IF ~(Truthy(c.start_time) /\ Truthy(c.end_time)) THEN "ok"
    ELSE LET start == ParseTime(c.start_time)
             end == ParseTime(c.end_time)
         IN IF ~start.ok \/ ~end.ok THEN "failed"
            ELSE IF ~Comparable(start, end) THEN "failed"
            ELSE IF start.wall > end.wall THEN "inverted"
            ELSE "ok"

\* Exceptions of the builder.
ValueErr ==
    [ module |-> "builtins", type |-> "ValueError", msg_line |-> 0,
      attrs |-> {}, cause |-> "" ]

RegexErr ==
    [ module |-> "builtins", type |-> "ValueError", msg_line |-> 0,
      attrs |-> {}, cause |-> "re.error" ]

InvalidTimestampErr ==
    [ module |-> "pyclef.filter", type |-> "ClefInvalidTimestampError", msg_line |-> 0,
      attrs |-> {"timestamp", "original_error"}, cause |-> "ValueError" ]

\* ClefInvalidTimestampError(timestamp, original_error), filter.py:73-78
ClefInvalidTimestampError(timestamp) == InvalidTimestampErr @@ [timestamp |-> timestamp]

InvertedRangeErr ==
    [ module |-> "pyclef.filter", type |-> "ClefFilterError", msg_line |-> 0,
      attrs |-> {}, cause |-> "" ]

FilterFailedErr ==
    [ module |-> "pyclef.filter", type |-> "ClefFilterError", msg_line |-> 0,
      attrs |-> {}, cause |-> "TypeError" ]

-----------------------------------------------------------------------------
(* The exception classes: a class is <<module, name>>                      *)

\* parser.py:193-222: the classes the parser module defines for itself, each
\* with the classes it derives from.
ParserModuleBases(name) ==
    IF name = "ClefParseError" THEN { <<"pyclef.parser", "ClefParseError">> }
    ELSE { <<"pyclef.parser", name>>, <<"pyclef.parser", "ClefParseError">> }

\* FilterModuleBases with the module deriving its errors from a base class of
\* its own.
FilterModuleBases_OwnBase(name) ==
    IF name = "ClefInvalidTimestampError"
    THEN { <<"pyclef.filter", "ClefInvalidTimestampError">>,
           <<"pyclef.filter", "ClefFilterError">>,
           <<"pyclef.filter", "ClefParseError">> }
    ELSE { <<"pyclef.filter", name>>, <<"pyclef.filter", "ClefParseError">> }

\* filter.py:64, 68-78: ClefFilterError derives from the ClefParseError of
\* pyclef.exceptions, ClefInvalidTimestampError from ClefFilterError.
FilterModuleBases(name) ==
    IF name = "ClefInvalidTimestampError"
    THEN { <<"pyclef.filter", "ClefInvalidTimestampError">>,
           <<"pyclef.filter", "ClefFilterError">>,
           <<"pyclef.exceptions", "ClefParseError">> }
    ELSE { <<"pyclef.filter", name>>, <<"pyclef.exceptions", "ClefParseError">> }

\* isinstance(e, cls); a builtin exception is an instance of no pyclef class.
IsInstance(e, cls) ==
    CASE e.module = "pyclef.parser" -> cls \in ParserModuleBases(e.type)
      [] e.module = "pyclef.filter" -> cls \in FilterModuleBases(e.type)
      [] OTHER -> cls = <<e.module, e.type>>

-----------------------------------------------------------------------------
(* pyclef/collection.py: ClefEventCollection.__getitem__                   *)

Min(a, b) == IF a < b THEN a ELSE b
Max(a, b) == IF a > b THEN a ELSE b

\* A slice object: start, stop and step are None or an integer.
Slice(start, stop, step) ==
    [ty |-> "slice", start |-> start, stop |-> stop, step |-> step]

Returned(kind, value) == [kind |-> kind, value |-> value]
Raised(name) == [kind |-> name, value |-> 0]
NoCall == [index |-> None, out |-> [kind |-> "none", value |-> 0]]

\* The indices list slicing selects from a list of n elements, as
\* slice.indices(n) gives them for a step that is not 0: the step, the first
\* index and the index the selection stops before (0-based).
SliceIndices(sl, n) ==
    LET step == IF sl.step = None THEN 1 ELSE sl.step.v
        lower == IF step < 0 THEN -1 ELSE 0
        upper == IF step < 0 THEN n - 1 ELSE n
        Adjust(x, default) ==
            IF x = None THEN default
            ELSE IF x.v < 0 THEN Max(x.v + n, lower)
            ELSE Min(x.v, upper)
    IN [ step |-> step,
         start |-> Adjust(sl.start, IF step < 0 THEN upper ELSE lower),
         stop |-> Adjust(sl.stop, IF step < 0 THEN lower ELSE upper) ]

\* The elements of evs at i, i + step, ... before stop (0-based indices).
RECURSIVE TakeFrom(_, _, _, _)
TakeFrom(evs, i, stop, step) ==
    IF (step > 0 /\ i < stop) \/ (step < 0 /\ i > stop)
    THEN <<evs[i + 1]>> \o TakeFrom(evs, i + step, stop, step)
    ELSE <<>>

\* self._events[index] for a slice with a step that is not 0,
\* collection.py:128: a new list.
ListSlice(evs, sl) ==
    LET ix == SliceIndices(sl, Len(evs))
    IN TakeFrom(evs, ix.start, ix.stop, ix.step)

\* __getitem__ bringing an index that is out of range to the nearest event.
getitem_Clamps(evs, index) ==
    IF index.ty = "int"
    THEN LET i == IF index.v < 0 THEN index.v + Len(evs) ELSE index.v
         IN IF evs = <<>> THEN Raised("IndexError")
            ELSE Returned("event", evs[Max(0, Min(i, Len(evs) - 1)) + 1])
    ELSE IF index.ty = "slice"
    THEN IF index.step # None /\ index.step.v = 0 THEN Raised("ValueError")
         ELSE Returned("collection", ListSlice(evs, index))
    ELSE Raised("TypeError")

\* __getitem__(index), collection.py:102-135, on the list evs: the event, or
\* the list of the new collection, or the exception raised (ValueError is
\* what list slicing raises for a step of 0).
getitem(evs, index) ==
    IF index.ty = "int"
    THEN LET i == IF index.v < 0 THEN index.v + Len(evs) ELSE index.v
         IN IF i < 0 \/ i >= Len(evs) THEN Raised("IndexError")
            ELSE Returned("event", evs[i + 1])
    ELSE IF index.ty = "slice"
    THEN IF index.step # None /\ index.step.v = 0 THEN Raised("ValueError")
         ELSE Returned("collection", ListSlice(evs, index))
    ELSE Raised("TypeError")

-----------------------------------------------------------------------------
(* Values the parts not taking part in a specification are held at         *)

\* ClefEventFilterBuilder.__init__: every criterion attribute is None.
NoCriteria ==
    [ start_time |-> None, end_time |-> None, level |-> None,
      msg_pattern |-> None, msg_template_pattern |-> None,
      user_fields |-> None, eventid |-> None,
      exception_pattern |-> None, renderings_pattern |-> None ]

ClassifierIdle ==
    /\ src = <<>> /\ pos = 0 /\ reified = EmptyDict /\ user = EmptyDict
    /\ cpc = "returned"

ParserIdle ==
    /\ fs = "ok" /\ lines = <<>> /\ mode = "parse" /\ gen = "created"
    /\ line_num = 0 /\ fopen = FALSE /\ yielded = <<>>
    /\ ret = NoCollection /\ perr = NoError

FilterIdle ==
    /\ events = <<>> /\ cfg = NoCriteria /\ calls = 0 /\ fpc = "config"
    /\ fidx = 0 /\ filtered = <<>> /\ skipped_count = 0 /\ warned = <<>>
    /\ ferr = NoError
    /\ history = <<>> /\ chain = "none"

EventFilterIdle ==
    /\ pcfg = NoCriteria /\ pfpc = "config" /\ pfiltered = <<>> /\ pferr = NoError

CollectionIdle ==
    /\ lists = <<>> /\ coll = 0 /\ sliced = 0 /\ got = NoCall /\ added = <<>>
    /\ copied = 0
    /\ made = 0 /\ result = 0

-----------------------------------------------------------------------------
(* SpecClassify: ClefParser.parse_event on every bounded decoded object    *)

InitClassify ==
    /\ src \in Objects(ClassifyKeys, ClassifyValues, MaxKeys)
    /\ pos = 0 /\ reified = EmptyDict /\ user = EmptyDict /\ cpc = "loop"
    /\ ParserIdle /\ FilterIdle /\ EventFilterIdle /\ CollectionIdle

\* One iteration of the for loop of parse_event.
ParseEventItem ==
    /\ cpc = "loop" /\ pos < Len(src)
    /\ LET ev == ClassifyItem(ClefEvent(reified, user), src[pos + 1][1], src[pos + 1][2])
       IN reified' = ev.reified /\ user' = ev.user
    /\ pos' = pos + 1
    /\ UNCHANGED <<src, cpc, pvars, fvars, hvars, evars, kvars, rvars>>

\* The loop is exhausted: return ClefEvent(reified, user).
ParseEventReturn ==
    /\ cpc = "loop" /\ pos = Len(src)
    /\ cpc' = "returned"
    /\ UNCHANGED <<src, pos, reified, user, pvars, fvars, hvars, evars, kvars, rvars>>

NextClassify == ParseEventItem \/ ParseEventReturn

SpecClassify == InitClassify /\ [][NextClassify]_vars

-----------------------------------------------------------------------------
(* SpecParse: one iter_events / parse operation on every bounded file      *)

MaxLines == 3

FileObjects ==
    { << <<TIMESTAMP, N(1)>>, <<(<<"@", "@", "F">>), N(2)>> >>,
      << <<(<<"F">>), N(1)>> >> }

FileLines ==
    { <<>>, <<Ws, Ws>>, <<BadText, Ws>>, <<ScalarText>> }
    \cup { <<ObjText(o), Ws>> : o \in FileObjects }
    \cup { <<Ws, ObjText(o)>> : o \in FileObjects }

Files == UNION { [1..m -> FileLines] : m \in 0..MaxLines }

InitParse ==
    /\ fs \in {"ok", "missing", "unreadable", "broken"}
    /\ lines \in Files
    /\ mode \in {"parse", "iter"}
    /\ gen = "created" /\ line_num = 0 /\ fopen = FALSE /\ yielded = <<>>
    /\ ret = NoCollection /\ perr = NoError
    /\ ClassifierIdle /\ FilterIdle /\ EventFilterIdle /\ CollectionIdle

\* The first next(): open() fails, the with block is never entered.
GenOpenFails ==
    /\ gen = "created" /\ fs \in {"missing", "unreadable"}
    /\ gen' = "raised"
    /\ perr' = IF fs = "missing" THEN FileNotFound ELSE FileIOError
    /\ UNCHANGED <<fs, lines, mode, line_num, fopen, yielded, ret, cvars, fvars, hvars, evars, kvars, rvars>>

\* One next() on the generator: the first one opens the file; the body runs
\* to the next yield, or leaves the with block (closing the file) by the end
\* of the file or by an exception.
GenNext ==
    /\ fs \in {"ok", "broken"} /\ gen \in {"created", "suspended"}
    /\ LET r == GenRun(lines, line_num)
       IN /\ line_num' = r.line_num
          /\ gen' = CASE r.st = "yield" -> "suspended"
                      [] r.st = "stop" -> "finished"
                      [] OTHER -> "raised"
          /\ fopen' = (r.st = "yield")
          /\ yielded' = IF r.st = "yield" THEN Append(yielded, r.ev) ELSE yielded
          /\ perr' = r.err
          \* parse(): `return collection` once the for loop is exhausted
          /\ ret' = IF mode = "parse" /\ r.st = "stop" THEN Collection(yielded) ELSE ret
    /\ UNCHANGED <<fs, lines, mode, cvars, fvars, hvars, evars, kvars, rvars>>

\* One next() on the generator during which reading the next line fails: the
\* OSError leaves the with block (closing the file) and is re-raised as
\* ClefIOError by the handler of parser.py:247.
GenReadFails ==
    /\ fs = "broken" /\ gen \in {"created", "suspended"}
    /\ gen' = "raised" /\ fopen' = FALSE
    /\ perr' = FileIOError
    /\ UNCHANGED <<fs, lines, mode, line_num, yielded, ret, cvars, fvars, hvars, evars, kvars, rvars>>

\* GenClose with the file left open when the generator is closed.
GenClose_LeavesOpen ==
    /\ mode = "iter" /\ gen \in {"created", "suspended"}
    /\ gen' = "closed"
    /\ UNCHANGED <<fs, lines, mode, line_num, fopen, yielded, ret, perr, cvars, fvars, hvars, evars, kvars, rvars>>

\* The streaming consumer stops: the generator is closed (explicitly or when
\* it is discarded); GeneratorExit at the yield leaves the with block.
GenClose ==
    /\ mode = "iter" /\ gen \in {"created", "suspended"}
    /\ gen' = "closed" /\ fopen' = FALSE
    /\ UNCHANGED <<fs, lines, mode, line_num, yielded, ret, perr, cvars, fvars, hvars, evars, kvars, rvars>>

NextParse == GenOpenFails \/ GenNext \/ GenReadFails \/ GenClose

SpecParse == InitParse /\ [][NextParse]_vars

-----------------------------------------------------------------------------
(* SpecFilter: one builder on every bounded collection; setter calls with  *)
(* valid and invalid arguments, and filter()                               *)

MaxEvents == 2
MaxCalls == 2

Dict2(k1, v1, k2, v2) == Put(Put(EmptyDict, k1, v1), k2, v2)

\* Events of the source collection: timestamps 1Z, 2Z, one without offset, an
\* unparseable one and none; levels "E", "W", "e"; messages "ab", "b", a
\* number; a template, an exception, renderings; user fields F and G.
EventPool ==
    { ClefEvent( [k \in {TIMESTAMP, LEVEL, MESSAGE, MESSAGE_TEMPLATE, EVENT_ID} |->
                    CASE k = TIMESTAMP -> S(<<"1", "Z">>)
                      [] k = LEVEL -> S(<<"E">>)
                      [] k = MESSAGE -> S(<<"a", "b">>)
                      [] k = MESSAGE_TEMPLATE -> S(<<"a">>)
                      [] OTHER -> N(1)],
                 Dict2(<<"F">>, N(1), <<"G">>, None) ),
      ClefEvent( [k \in {TIMESTAMP, LEVEL, MESSAGE, EXCEPTION} |->
                    CASE k = TIMESTAMP -> S(<<"2", "Z">>)
                      [] k = LEVEL -> S(<<"W">>)
                      [] k = MESSAGE -> S(<<"b">>)
                      [] OTHER -> S(<<"a">>)],
                 Put(EmptyDict, <<"F">>, N(2)) ),
      ClefEvent( [k \in {TIMESTAMP, LEVEL, MESSAGE, EVENT_ID, RENDERINGS} |->
                    CASE k = TIMESTAMP -> S(<<"2">>)
                      [] k = LEVEL -> S(<<"e">>)
                      [] k = MESSAGE -> N(1)
                      [] k = RENDERINGS -> S(<<"a">>)
                      [] OTHER -> N(0)],
                 EmptyDict ),
      ClefEvent( [k \in {TIMESTAMP, LEVEL, MESSAGE} |->
                    CASE k = TIMESTAMP -> S(<<"x">>)
                      [] k = LEVEL -> S(<<"E">>)
                      [] OTHER -> S(<<"b">>)],
                 Put(EmptyDict, <<"F">>, N(1)) ),
      ClefEvent( EmptyDict, EmptyDict ) }

Collections == UNION { [1..m -> EventPool] : m \in 0..MaxEvents }

\* Arguments of the setters: empty, invalid and valid ones.
StartArgs == { S(<<>>), S(<<"x">>), S(<<"2", "Z">>), S(<<"2">>) }
EndArgs == { S(<<>>), S(<<"x">>), S(<<"1", "Z">>), S(<<"2", "+">>), S(<<"3", "Z">>) }
LevelArgs == { S(<<>>), S(<<"E">>), S(<<"e">>) }
MsgRegexArgs == { S(<<>>), S(<<"[">>), S(<<"a">>), S(<<"b", "*">>) }
RegexArgs == { S(<<>>), S(<<"[">>), S(<<"a">>) }
UserFieldsArgs ==
    { None, D(EmptyDict), D(Put(EmptyDict, <<"F">>, N(1))),
      D(Put(EmptyDict, <<"G">>, None)) }
EventIdArgs == { None, N(0), N(1) }

InitFilter ==
    /\ events \in Collections
    /\ cfg = NoCriteria /\ calls = 0 /\ fpc = "config"
    /\ fidx = 0 /\ filtered = <<>> /\ skipped_count = 0 /\ warned = <<>>
    /\ ferr = NoError
    /\ history = <<>> /\ chain = "none"
    /\ ClassifierIdle /\ ParserIdle /\ EventFilterIdle /\ CollectionIdle

\* A setter call that raises after setting every criterion back to None.
SetterRaises_ClearsBuilder(err) ==
    /\ ferr' = err
    /\ cfg' = NoCriteria

\* A setter call that raises: the builder is left as it was.
SetterRaises(err) ==
    /\ ferr' = err
    /\ UNCHANGED cfg

\* A setter call that stores its value and returns self.
SetterStores(field, value) ==
    /\ ferr' = NoError
    /\ cfg' = [cfg EXCEPT ![field] = value]

\* What every setter call leaves behind; the result of an earlier filter() is
\* no longer followed.
SetterFrame(w) ==
    /\ calls < MaxCalls
    /\ calls' = calls + 1
    /\ fpc' = "config" /\ fidx' = 0 /\ filtered' = <<>> /\ skipped_count' = 0
    /\ warned' = w
    /\ UNCHANGED <<events, cvars, pvars, kvars, rvars>>

\* start_time storing its argument without looking at it.
start_time_Unvalidated(value) ==
    /\ SetterFrame(<<>>)
    /\ SetterStores("start_time", value)

\* start_time(value), filter.py:134-161
start_time(value) ==
    /\ SetterFrame(<<>>)
    /\ IF ~Truthy(value) THEN SetterRaises(ValueErr)
       ELSE IF ~ParseTime(value).ok THEN SetterRaises(ClefInvalidTimestampError(value))
       ELSE SetterStores("start_time", value)

\* end_time(value), filter.py:163-190
end_time(value) ==
    /\ SetterFrame(<<>>)
    /\ IF ~Truthy(value) THEN SetterRaises(ValueErr)
       ELSE IF ~ParseTime(value).ok THEN SetterRaises(ClefInvalidTimestampError(value))
       ELSE SetterStores("end_time", value)

\* level(value), filter.py:192-212
level(value) ==
    /\ SetterFrame(<<>>)
    /\ IF ~Truthy(value) THEN SetterRaises(ValueErr)
       ELSE SetterStores("level", value)

\* The body shared by the four regex setters.
SetPattern(field, value) ==
    /\ SetterFrame(<<>>)
    /\ IF ~Truthy(value) THEN SetterRaises(ValueErr)
       ELSE IF ~Compiles(value.v) THEN SetterRaises(RegexErr)
       ELSE SetterStores(field, value)

\* msg_regex(value), filter.py:214-238
msg_regex(value) == SetPattern("msg_pattern", value)

\* msg_template_regex(value), filter.py:240-266
msg_template_regex(value) == SetPattern("msg_template_pattern", value)

\* exception_regex(value), filter.py:312-338
exception_regex(value) == SetPattern("exception_pattern", value)

\* renderings_regex(value), filter.py:340-365
renderings_regex(value) == SetPattern("renderings_pattern", value)

\* user_fields(value), filter.py:268-293
user_fields(value) ==
    /\ SetterFrame(IF value # None /\ ~Truthy(value)
                   THEN <<Warning("empty_user_fields", 0)>> ELSE <<>>)
    /\ IF value = None THEN SetterRaises(ValueErr)
       ELSE SetterStores("user_fields", value)

\* eventid(value), filter.py:295-310
eventid(value) ==
    /\ SetterFrame(<<>>)
    /\ SetterStores("eventid", value)

\* The setter calls of SpecFilter, on every argument of the bounded sets.
SetStartTime == \E value \in StartArgs : start_time(value) /\ UNCHANGED <<hvars, evars>>
SetEndTime == \E value \in EndArgs : end_time(value) /\ UNCHANGED <<hvars, evars>>
SetLevel == \E value \in LevelArgs : level(value) /\ UNCHANGED <<hvars, evars>>
SetMsgRegex == \E value \in MsgRegexArgs : msg_regex(value) /\ UNCHANGED <<hvars, evars>>
SetMsgTemplateRegex == \E value \in RegexArgs : msg_template_regex(value) /\ UNCHANGED <<hvars, evars>>
SetExceptionRegex == \E value \in RegexArgs : exception_regex(value) /\ UNCHANGED <<hvars, evars>>
SetRenderingsRegex == \E value \in RegexArgs : renderings_regex(value) /\ UNCHANGED <<hvars, evars>>
SetUserFields == \E value \in UserFieldsArgs : user_fields(value) /\ UNCHANGED <<hvars, evars>>
SetEventId == \E value \in EventIdArgs : eventid(value) /\ UNCHANGED <<hvars, evars>>

\* filter() emitting the aggregate warning whatever the skip counter is.
filter_AlwaysWarns ==
    /\ LET rc == RangeCheck(cfg)
           r == FilterLoop(events, cfg, 1,
                    [filtered |-> <<>>, skipped |-> 0, warned |-> <<>>, evaluated |-> 0])
       IN IF rc # "ok"
          THEN /\ fpc' = "raised"
               /\ ferr' = IF rc = "inverted" THEN InvertedRangeErr ELSE FilterFailedErr
               /\ fidx' = 0 /\ filtered' = <<>> /\ skipped_count' = 0 /\ warned' = <<>>
          ELSE /\ fpc' = "returned"
               /\ ferr' = NoError
               /\ fidx' = r.evaluated
               /\ filtered' = r.filtered
               /\ skipped_count' = r.skipped
               /\ warned' = Append(r.warned, Warning("aggregate", r.skipped))
    /\ UNCHANGED <<events, cfg, calls, cvars, pvars, kvars>>

\* filter(), filter.py:386-538: the range validation, then the loop over all
\* events, the aggregate warning and the return of the new collection.
filter ==
    /\ LET rc == RangeCheck(cfg)
           r == FilterLoop(events, cfg, 1,
                    [filtered |-> <<>>, skipped |-> 0, warned |-> <<>>, evaluated |-> 0])
       IN IF rc # "ok"
          THEN /\ fpc' = "raised"
               /\ ferr' = IF rc = "inverted" THEN InvertedRangeErr ELSE FilterFailedErr
               /\ fidx' = 0 /\ filtered' = <<>> /\ skipped_count' = 0 /\ warned' = <<>>
          ELSE /\ fpc' = "returned"
               /\ ferr' = NoError
               /\ fidx' = r.evaluated
               /\ filtered' = r.filtered
               /\ skipped_count' = r.skipped
               /\ warned' = IF r.skipped > 0
                            THEN Append(r.warned, Warning("aggregate", r.skipped))
                            ELSE r.warned
    /\ UNCHANGED <<events, cfg, calls, cvars, pvars, kvars>>

\* filter() called on the builder of pyclef.filter alone.
Filter == filter /\ UNCHANGED <<hvars, evars, rvars>>

NextFilter ==
    \/ SetStartTime
    \/ SetEndTime
    \/ SetLevel
    \/ SetMsgRegex
    \/ SetMsgTemplateRegex
    \/ SetUserFields
    \/ SetEventId
    \/ SetExceptionRegex
    \/ SetRenderingsRegex
    \/ Filter

SpecFilter == InitFilter /\ [][NextFilter]_vars

-----------------------------------------------------------------------------
(* SpecSetters: the calls a caller makes on one builder, each recorded     *)
(* with its argument, and filter()                                         *)

SetterCollections == { <<>> } \cup { <<e>> : e \in EventPool }

InitSetters ==
    /\ events \in SetterCollections
    /\ cfg = NoCriteria /\ calls = 0 /\ fpc = "config"
    /\ fidx = 0 /\ filtered = <<>> /\ skipped_count = 0 /\ warned = <<>>
    /\ ferr = NoError
    /\ history = <<>> /\ chain = "none"
    /\ ClassifierIdle /\ ParserIdle /\ EventFilterIdle /\ CollectionIdle

\* The caller notes the call it makes.
Call(name, value) ==
    /\ history' = Append(history, <<name, value>>)
    /\ chain' = IF ferr' = NoError THEN "self" ELSE "none"
    /\ UNCHANGED evars

CallStartTime == \E value \in StartArgs : start_time(value) /\ Call("start_time", value)
CallEndTime == \E value \in EndArgs : end_time(value) /\ Call("end_time", value)
CallLevel == \E value \in LevelArgs : level(value) /\ Call("level", value)
CallMsgRegex == \E value \in MsgRegexArgs : msg_regex(value) /\ Call("msg_regex", value)
CallMsgTemplateRegex ==
    \E value \in RegexArgs : msg_template_regex(value) /\ Call("msg_template_regex", value)
CallExceptionRegex ==
    \E value \in RegexArgs : exception_regex(value) /\ Call("exception_regex", value)
CallRenderingsRegex ==
    \E value \in RegexArgs : renderings_regex(value) /\ Call("renderings_regex", value)
CallUserFields == \E value \in UserFieldsArgs : user_fields(value) /\ Call("user_fields", value)
CallEventId == \E value \in EventIdArgs : eventid(value) /\ Call("eventid", value)

NextSetters ==
    \/ CallStartTime
    \/ CallEndTime
    \/ CallLevel
    \/ CallMsgRegex
    \/ CallMsgTemplateRegex
    \/ CallUserFields
    \/ CallEventId
    \/ CallExceptionRegex
    \/ CallRenderingsRegex
    \/ Filter

SpecSetters == InitSetters /\ [][NextSetters]_vars

-----------------------------------------------------------------------------
(* pyclef/parser.py: the ClefEventFilterBuilder the parser module defines  *)
(* for itself (parser.py:18-114), which ClefParser.event_filter returns    *)

BuiltinError(name) ==
    [ module |-> "builtins", type |-> name, msg_line |-> 0, attrs |-> {}, cause |-> "" ]

\* The local parse_time(t) of filter(), parser.py:80-81: the exception it
\* raises ("" if none): no replace method, or not an ISO timestamp.
Parser_parse_time(val) ==
    IF val.ty # "str" THEN "AttributeError"
    ELSE IF ~ParseTime(val).ok THEN "ValueError"
    ELSE ""

\* parser.py:86-89: one of the two time conditions of the loop body; a bound
\* or an event timestamp that is falsy switches the condition off.
Parser_TimeBound(e, bound, isStart) ==
    LET event_time == Get(e.reified, TIMESTAMP)
        event_dt == ParseTime(event_time)
        bound_dt == ParseTime(bound)
    IN IF ~(Truthy(bound) /\ Truthy(event_time)) THEN "next"
       ELSE IF Parser_parse_time(event_time) # "" THEN Parser_parse_time(event_time)
       ELSE IF Parser_parse_time(bound) # "" THEN Parser_parse_time(bound)
       ELSE IF ~Comparable(event_dt, bound_dt) THEN "TypeError"
       ELSE IF isStart /\ event_dt.wall < bound_dt.wall THEN "exclude"
       ELSE IF ~isStart /\ event_dt.wall > bound_dt.wall THEN "exclude"
       ELSE "next"

\* parser.py:92-107: the message and the template are searched as they are
\* (TypeError for a value that is no string), the exception and the
\* renderings after str().
Parser_PatternCheck(e, c, i) ==
    LET pat == c[PatternFields[i][1]]
        val == GetOrEmpty(e.reified, PatternFields[i][2])
    IN IF pat = None THEN "next"
       ELSE IF i <= 2 /\ val.ty # "str" THEN "TypeError"
       ELSE IF Search(pat.v, Str(val)) THEN "next"
       ELSE "exclude"

\* The first of the outcomes that is not "next" ("next" if there is none).
RECURSIVE FirstOutcome(_)
FirstOutcome(outcomes) ==
    IF outcomes = <<>> THEN "next"
    ELSE IF Head(outcomes) # "next" THEN Head(outcomes)
    ELSE FirstOutcome(Tail(outcomes))

\* The body of the for loop of filter(), parser.py:85-112: "pass", "exclude"
\* or the name of the exception that leaves the loop.
Parser_EvalEvent(e, c) ==
    LET o == FirstOutcome(<<
                Parser_TimeBound(e, c.start_time, TRUE),
                Parser_TimeBound(e, c.end_time, FALSE),
                IF LevelCheck(e, c) THEN "next" ELSE "exclude",
                Parser_PatternCheck(e, c, 1),
                Parser_PatternCheck(e, c, 2),
                Parser_PatternCheck(e, c, 3),
                Parser_PatternCheck(e, c, 4),
                IF UserFieldsCheck(e, c) THEN "next" ELSE "exclude",
                IF EventIdCheck(e, c) THEN "next" ELSE "exclude" >>)
    IN IF o = "next" THEN "pass" ELSE o

\* The for loop of filter() from event i on: it ends at the first exception.
RECURSIVE Parser_FilterLoop(_, _, _, _)
Parser_FilterLoop(evs, c, i, acc) ==
    IF i > Len(evs) THEN [filtered |-> acc, err |-> NoError]
    ELSE LET o == Parser_EvalEvent(evs[i], c)
         IN IF o = "pass" THEN Parser_FilterLoop(evs, c, i + 1, Append(acc, evs[i]))
            ELSE IF o = "exclude" THEN Parser_FilterLoop(evs, c, i + 1, acc)
            ELSE [filtered |-> <<>>, err |-> BuiltinError(o)]

\* A setter of parser.py:31-42, 57-63: the value is assigned as it is.
Parser_Set(field, value) ==
    /\ pcfg' = [pcfg EXCEPT ![field] = value]
    /\ pferr' = NoError
    /\ pfpc' = "config" /\ pfiltered' = <<>>

\* A regex setter of parser.py:43-55, 65-77: re.compile(value), ValueError
\* for a pattern that does not compile.
Parser_SetPattern(field, value) ==
    IF Compiles(value.v) THEN Parser_Set(field, value)
    ELSE /\ pferr' = RegexErr
         /\ pfpc' = "config" /\ pfiltered' = <<>>
         /\ UNCHANGED pcfg

\* filter(), parser.py:79-113
Parser_filter ==
    LET r == Parser_FilterLoop(events, pcfg, 1, <<>>)
    IN /\ pfpc' = IF r.err = NoError THEN "returned" ELSE "raised"
       /\ pfiltered' = r.filtered
       /\ pferr' = r.err
       /\ UNCHANGED pcfg

-----------------------------------------------------------------------------
(* SpecEventFilter: the same calls made on parser.event_filter(events) and *)
(* on pyclef.filter.ClefEventFilterBuilder(events)                         *)

InitEventFilter ==
    /\ events \in SetterCollections
    /\ cfg = NoCriteria /\ calls = 0 /\ fpc = "config"
    /\ fidx = 0 /\ filtered = <<>> /\ skipped_count = 0 /\ warned = <<>>
    /\ ferr = NoError
    /\ history = <<>> /\ chain = "none"
    /\ EventFilterIdle
    /\ ClassifierIdle /\ ParserIdle /\ CollectionIdle

BothStartTime ==
    \E value \in StartArgs :
        start_time(value) /\ Parser_Set("start_time", value) /\ UNCHANGED hvars
BothEndTime ==
    \E value \in EndArgs :
        end_time(value) /\ Parser_Set("end_time", value) /\ UNCHANGED hvars
BothLevel ==
    \E value \in LevelArgs :
        level(value) /\ Parser_Set("level", value) /\ UNCHANGED hvars
BothMsgRegex ==
    \E value \in MsgRegexArgs :
        msg_regex(value) /\ Parser_SetPattern("msg_pattern", value) /\ UNCHANGED hvars
BothMsgTemplateRegex ==
    \E value \in RegexArgs :
        /\ msg_template_regex(value)
        /\ Parser_SetPattern("msg_template_pattern", value) /\ UNCHANGED hvars
BothUserFields ==
    \E value \in UserFieldsArgs :
        user_fields(value) /\ Parser_Set("user_fields", value) /\ UNCHANGED hvars
BothEventId ==
    \E value \in EventIdArgs :
        eventid(value) /\ Parser_Set("eventid", value) /\ UNCHANGED hvars
BothExceptionRegex ==
    \E value \in RegexArgs :
        /\ exception_regex(value)
        /\ Parser_SetPattern("exception_pattern", value) /\ UNCHANGED hvars
BothRenderingsRegex ==
    \E value \in RegexArgs :
        /\ renderings_regex(value)
        /\ Parser_SetPattern("renderings_pattern", value) /\ UNCHANGED hvars
BothFilter == filter /\ Parser_filter /\ UNCHANGED <<hvars, rvars>>

NextEventFilter ==
    \/ BothStartTime
    \/ BothEndTime
    \/ BothLevel
    \/ BothMsgRegex
    \/ BothMsgTemplateRegex
    \/ BothUserFields
    \/ BothEventId
    \/ BothExceptionRegex
    \/ BothRenderingsRegex
    \/ BothFilter

SpecEventFilter == InitEventFilter /\ [][NextEventFilter]_vars

-----------------------------------------------------------------------------
(* SpecRefilter: filter() called again and again on one builder of         *)
(* pyclef.filter, with the collection object each call creates             *)

MaxResults == 3

\* One event, or two different ones in either order.
RefilterCollections ==
    { <<e>> : e \in EventPool }
        \cup { <<a, b>> : a \in { e \in EventPool : Get(e.reified, LEVEL) = S(<<"E">>) },
                          b \in { e \in EventPool : Get(e.reified, LEVEL) # S(<<"E">>) } }

InitRefilter ==
    /\ events \in RefilterCollections
    /\ cfg = NoCriteria /\ calls = 0 /\ fpc = "config"
    /\ fidx = 0 /\ filtered = <<>> /\ skipped_count = 0 /\ warned = <<>>
    /\ ferr = NoError
    /\ history = <<>> /\ chain = "none"
    /\ ClassifierIdle /\ ParserIdle /\ EventFilterIdle /\ CollectionIdle

\* filter() handing the events that pass to the collection of the previous
\* call instead of a new one.
FilterIntoNew_ReusesCollection ==
    /\ made < MaxResults
    /\ filter
    /\ made' = made + 1
    /\ result' = IF fpc' # "returned" THEN result
                 ELSE IF result # 0 THEN result ELSE made'
    /\ UNCHANGED <<hvars, evars>>

\* filter(), filter.py:386-538, with line 415: every call creates the
\* collection it fills, and hands it to the caller when it returns.
FilterIntoNew ==
    /\ made < MaxResults
    /\ filter
    /\ made' = made + 1
    /\ result' = IF fpc' = "returned" THEN made' ELSE result
    /\ UNCHANGED <<hvars, evars>>

NextRefilter ==
    \/ SetStartTime
    \/ SetEndTime
    \/ SetLevel
    \/ SetMsgRegex
    \/ SetMsgTemplateRegex
    \/ SetUserFields
    \/ SetEventId
    \/ SetExceptionRegex
    \/ SetRenderingsRegex
    \/ FilterIntoNew

SpecRefilter == InitRefilter /\ [][NextRefilter]_vars

-----------------------------------------------------------------------------
(* SpecCollection: one ClefEventCollection S, built by add_event, indexed  *)
(* and sliced; the collection the last slice returned, added to as well    *)

MaxLen == 3

\* The events added: the two with level "E".
CollectionEvents == { e \in EventPool : Get(e.reified, LEVEL) = S(<<"E">>) }

\* Integer indices up to two beyond either end of the longest list, and two
\* indices that are neither an integer nor a slice.
IntIndexes == { N(i) : i \in (0 - (MaxLen + 2))..(MaxLen + 1) }
OtherIndexes == { S(<<"0">>), None }

SliceEnds == { None } \cup { N(i) : i \in (0 - (MaxLen + 1))..(MaxLen + 1) }
SliceSteps == { None, N(0 - 2), N(0 - 1), N(0), N(1), N(2) }
Slices == { Slice(a, b, c) : a \in SliceEnds, b \in SliceEnds, c \in SliceSteps }

\* ClefEventCollection(), collection.py:58-65: S with an empty list of its
\* own, and the index the caller is going to use on it.
InitCollection ==
    /\ lists = [id \in {1} |-> <<>>]
    /\ coll = 1 /\ sliced = 0 /\ added = <<>> /\ copied = 0
    /\ got \in { [index |-> index, out |-> NoCall.out] :
                    index \in IntIndexes \cup OtherIndexes \cup Slices }
    /\ made = 0 /\ result = 0
    /\ ClassifierIdle /\ ParserIdle /\ FilterIdle /\ EventFilterIdle

CollectionFrame == UNCHANGED <<cvars, pvars, fvars, hvars, evars, rvars>>

\* The id of the list object a slice creates: the caller keeps the new
\* collection in place of the one of the previous slice, whose list is gone.
NewId == coll + 1

\* S.add_event(event), collection.py:67-81
AddEvent ==
    \E event \in CollectionEvents :
        /\ Len(lists[coll]) < MaxLen
        /\ lists' = [lists EXCEPT ![coll] = Append(@, event)]
        /\ added' = Append(added, event)
        /\ got' = [got EXCEPT !.out = NoCall.out]
        /\ UNCHANGED <<coll, sliced, copied>>
        /\ CollectionFrame

\* add_event(event) on the collection the last slice returned.
AddToSlice ==
    \E event \in CollectionEvents :
        /\ sliced # 0
        /\ Len(lists[sliced]) < MaxLen
        /\ lists' = [lists EXCEPT ![sliced] = Append(@, event)]
        /\ got' = [got EXCEPT !.out = NoCall.out]
        /\ UNCHANGED <<coll, sliced, added, copied>>
        /\ CollectionFrame

\* S[index] for an integer, or for an index that is no integer and no slice.
GetItem ==
    /\ got.index.ty # "slice"
    /\ got' = [got EXCEPT !.out = getitem(lists[coll], got.index)]
    /\ UNCHANGED <<lists, coll, sliced, added, copied>>
    /\ CollectionFrame

\* S[slice] giving the collection it returns the list of S when the slice
\* selects all of it.
GetSlice_SharesWholeList ==
    /\ got.index.ty = "slice"
    /\ LET out == getitem(lists[coll], got.index)
       IN IF out.kind = "collection" /\ out.value = lists[coll]
          THEN /\ lists' = [id \in {coll} |-> lists[coll]]
               /\ sliced' = coll
               /\ got' = [got EXCEPT !.out = Returned("collection", coll)]
          ELSE IF out.kind = "collection"
          THEN /\ lists' = [id \in {coll, NewId} |->
                             IF id = coll THEN lists[coll] ELSE out.value]
               /\ sliced' = NewId
               /\ got' = [got EXCEPT !.out = Returned("collection", NewId)]
          ELSE /\ got' = [got EXCEPT !.out = out]
               /\ UNCHANGED <<lists, sliced>>
    /\ UNCHANGED <<coll, added, copied>>
    /\ CollectionFrame

\* S[slice], collection.py:126-131: the new collection holds the list that
\* slicing S's list created; the caller keeps it in place of the collection
\* of the previous slice. A step of 0 raises and creates nothing.
GetSlice ==
    /\ got.index.ty = "slice"
    /\ LET out == getitem(lists[coll], got.index)
       IN IF out.kind = "collection"
          THEN /\ lists' = [id \in {coll, NewId} |->
                             IF id = coll THEN lists[coll] ELSE out.value]
               /\ sliced' = NewId
               /\ got' = [got EXCEPT !.out = Returned("collection", NewId)]
          ELSE /\ got' = [got EXCEPT !.out = out]
               /\ UNCHANGED <<lists, sliced>>
    /\ UNCHANGED <<coll, added, copied>>
    /\ CollectionFrame

NextCollection ==
    \/ AddEvent
    \/ AddToSlice
    \/ GetItem
    \/ GetSlice

SpecCollection == InitCollection /\ [][NextCollection]_vars

-----------------------------------------------------------------------------
(* SpecDerived: one ClefEventCollection S, built by add_event, with the    *)
(* collection S.filter(predicate) returns and the list get_all_events      *)
(* returns, both changed by the caller afterwards                          *)

\* A predicate is the set of events it is true of.
Predicate(evs) == [ty |-> "pred", v |-> evs]
Predicates == { Predicate(evs) : evs \in SUBSET CollectionEvents }

\* S as constructed, and the predicate the caller is going to filter by.
InitDerived ==
    /\ lists = [id \in {1} |-> <<>>]
    /\ coll = 1 /\ sliced = 0 /\ added = <<>> /\ copied = 0
    /\ got \in { [index |-> predicate, out |-> NoCall.out] : predicate \in Predicates }
    /\ made = 0 /\ result = 0
    /\ ClassifierIdle /\ ParserIdle /\ FilterIdle /\ EventFilterIdle

\* The heap with list id holding evs (a new list, or a changed one).
WithList(id, evs) ==
    [ i \in DOMAIN lists \cup {id} |-> IF i = id THEN evs ELSE lists[i] ]

\* S.filter(predicate), collection.py:83-100: the new collection holds the
\* list the comprehension built.
FilterBy ==
    /\ got.index.ty = "pred"
    /\ lists' = WithList(NewId, SelectSeq(lists[coll], LAMBDA e : e \in got.index.v))
    /\ sliced' = NewId
    /\ got' = [got EXCEPT !.out = Returned("collection", NewId)]
    /\ UNCHANGED <<coll, added, copied>>
    /\ CollectionFrame

\* The id of the list a get_all_events call creates; the list of the
\* previous call is still held by the caller at that time.
NewCopyId == IF copied = coll + 2 THEN coll + 3 ELSE coll + 2

\* get_all_events handing out the list of S itself.
GetAllEvents_ReturnsOwnList ==
    /\ copied' = coll
    /\ lists' = [ i \in DOMAIN lists \ {copied} |-> lists[i] ]
    /\ UNCHANGED <<coll, sliced, got, added>>
    /\ CollectionFrame

\* S.get_all_events(), collection.py:164-170: list(self._events); the caller
\* keeps the new list in place of the one of the previous call.
GetAllEvents ==
    /\ copied' = NewCopyId
    /\ lists' = [ i \in (DOMAIN lists \ {copied}) \cup {NewCopyId} |->
                    IF i = NewCopyId THEN lists[coll] ELSE lists[i] ]
    /\ UNCHANGED <<coll, sliced, got, added>>
    /\ CollectionFrame

\* The caller changes the list get_all_events returned: append or pop.
ChangeCopy ==
    /\ copied # 0
    /\ \/ \E event \in CollectionEvents :
             /\ Len(lists[copied]) < MaxLen
             /\ lists' = WithList(copied, Append(lists[copied], event))
       \/ /\ lists[copied] # <<>>
          /\ lists' = WithList(copied, SubSeq(lists[copied], 1, Len(lists[copied]) - 1))
    /\ UNCHANGED <<coll, sliced, got, added, copied>>
    /\ CollectionFrame

NextDerived ==
    \/ AddEvent
    \/ AddToSlice
    \/ FilterBy
    \/ GetAllEvents
    \/ ChangeCopy

SpecDerived == InitDerived /\ [][NextDerived]_vars

-----------------------------------------------------------------------------
(* Claims about ClefParser.parse_event, checked under SpecClassify         *)

WireKeys ==
    { <<"@", "t">>, <<"@", "m">>, <<"@", "m", "t">>, <<"@", "l">>,
      <<"@", "x">>, <<"@", "i">>, <<"@", "r">> }

Escaped(k) == Len(k) >= 2 /\ k[1] = "@" /\ k[2] = "@"

\* C2: every source entry is represented exactly once in the returned event:
\* len(reified) + len(user) equals the number of source keys, and every source
\* value is found under the name its key is stored as.
C2_PartitionTotal ==
    cpc = "returned" =>
        /\ Cardinality(DOMAIN reified) + Cardinality(DOMAIN user) = Len(src)
        /\ \A i \in 1..Len(src) :
              LET k == src[i][1]
                  v == src[i][2]
              IN IF k \in WireKeys THEN k \in DOMAIN reified /\ reified[k] = v
                 ELSE IF Escaped(k) THEN Tail(k) \in DOMAIN user /\ user[Tail(k)] = v
                 ELSE k \in DOMAIN user /\ user[k] = v

\* C3 (as stated): the key sets of event.reified and event.user are disjoint.
C3_KeySetsDisjoint ==
    cpc = "returned" => DOMAIN reified \cap DOMAIN user = {}

\* C3 (amended): a key is in both mappings only if it is a wire key K and the
\* source object holds both K and its escaped form "@" + K; so no source entry
\* is stored in both mappings, and without such a pair the key sets are disjoint.
C3_SharedKeyOnlyFromEscapedWireKey ==
    cpc = "returned" =>
        \A k \in DOMAIN reified \cap DOMAIN user :
            /\ k \in WireKeys
            /\ k \in SrcKeys
            /\ (<<"@">> \o k) \in SrcKeys

\* The source held "@t", "@@t" and "@@F"; parse_event returned with "@t" as
\* the one key present in both mappings.
C3_Witness ==
    /\ cpc = "returned"
    /\ SrcKeys = { <<"@", "t">>, <<"@", "@", "t">>, <<"@", "@", "F">> }
    /\ DOMAIN reified \cap DOMAIN user = { <<"@", "t">> }
    /\ DOMAIN user = { <<"@", "t">>, <<"@", "F">> }

\* C4: each iteration classifies its item (k, v) by the rule: a wire key gives
\* reified[k] = v; otherwise a key starting with "@@" gives user[k[1:]] = v;
\* otherwise user[k] = v; and the other mapping is left alone.
C4_ClassificationRule ==
    [][ pos' = pos + 1 =>
          LET k == src[pos'][1]
              v == src[pos'][2]
          IN IF k \in WireKeys
             THEN reified' = Put(reified, k, v) /\ user' = user
             ELSE IF Escaped(k)
             THEN user' = Put(user, SubSeq(k, 2, Len(k)), v) /\ reified' = reified
             ELSE user' = Put(user, k, v) /\ reified' = reified ]_vars

\* "@@F" was stored as "@F", a plain "F" unchanged and "@t" in reified.
C4_Witness ==
    /\ cpc = "returned"
    /\ src = << <<(<<"@", "@", "F">>), N(1)>>, <<(<<"F">>), N(2)>>, <<(<<"@", "t">>), N(1)>> >>
    /\ user = Put(Put(EmptyDict, <<"@", "F">>, N(1)), <<"F">>, N(2))
    /\ reified = Put(EmptyDict, <<"@", "t">>, N(1))

-----------------------------------------------------------------------------
(* Claims about ClefParser.iter_events / parse, checked under SpecParse    *)

\* The document tokens of a line, whitespace left out.
Docs(l) == SelectSeq(l, LAMBDA tok : tok.kind # "ws")

IsBlankLine(l) == Docs(l) = <<>>
IsObjectLine(l) == Len(Docs(l)) = 1 /\ Docs(l)[1].kind = "object"
IsValidJsonLine(l) == Len(Docs(l)) = 1 /\ Docs(l)[1].kind \in {"object", "scalar"}
IsMalformedLine(l) == ~IsBlankLine(l) /\ ~IsValidJsonLine(l)

\* The physical number of the first non-blank line that is not valid JSON
\* (0 if there is none).
FirstMalformed ==
    IF \E i \in 1..Len(lines) : IsMalformedLine(lines[i])
    THEN CHOOSE i \in 1..Len(lines) :
            /\ IsMalformedLine(lines[i])
            /\ \A j \in 1..(i - 1) : ~IsMalformedLine(lines[j])
    ELSE 0

\* Every line before line n is blank or a valid event line (a JSON object).
OnlyEventLinesBefore(n) ==
    \A j \in 1..(n - 1) : IsBlankLine(lines[j]) \/ IsObjectLine(lines[j])

\* The events of the object lines among ls, in file order.
RECURSIVE EventsOfLines(_)
EventsOfLines(ls) ==
    IF ls = <<>> THEN <<>>
    ELSE IF IsObjectLine(Head(ls))
    THEN <<ParseEvent(Docs(Head(ls))[1].items)>> \o EventsOfLines(Tail(ls))
    ELSE EventsOfLines(Tail(ls))

IsPrefix(s, u) == Len(s) <= Len(u) /\ s = SubSeq(u, 1, Len(s))

\* C5: when the first line that is not valid JSON is physical line N, after
\* any number of blank lines and valid event lines, parse and iter_events do
\* not complete, and the error they fail with reports line N.
C5_LineNumberFidelity ==
    (fs = "ok" /\ FirstMalformed # 0 /\ OnlyEventLinesBefore(FirstMalformed)) =>
        /\ gen # "finished"
        /\ ~ret.returned
        /\ gen = "raised" => perr.msg_line = FirstMalformed /\ line_num = FirstMalformed

\* A blank line and an event line precede the malformed line 3; the error
\* reports 3.
C5_Witness ==
    /\ gen = "raised"
    /\ Len(lines) = 3
    /\ IsBlankLine(lines[1]) /\ IsObjectLine(lines[2]) /\ IsMalformedLine(lines[3])
    /\ perr.msg_line = 3

\* C6: the error raised for a line that fails JSON decoding is a
\* ClefJSONDecodeError carrying the line number, the content of the line and
\* the underlying decode error as separate data.
C6_DecodeErrorCarriesData ==
    (fs = "ok" /\ FirstMalformed # 0 /\ OnlyEventLinesBefore(FirstMalformed)
       /\ gen = "raised") =>
        /\ perr.type = "ClefJSONDecodeError"
        /\ {"line_num", "line_content", "original_error"} \subseteq perr.attrs

\* C7: when every non-blank line is a JSON object, parse raises nothing and
\* returns exactly one event per non-blank line, the i-th being the
\* classification of the i-th non-blank line; blank lines give no event.
C7_OneEventPerNonBlankLine ==
    (fs = "ok" /\ \A i \in 1..Len(lines) : IsBlankLine(lines[i]) \/ IsObjectLine(lines[i])) =>
        /\ gen # "raised" /\ perr = NoError
        /\ IsPrefix(yielded, EventsOfLines(lines))
        /\ (mode = "parse" /\ gen = "finished") =>
              ret = Collection(EventsOfLines(lines))
        /\ ret.returned => mode = "parse" /\ gen = "finished"

\* parse returned two events for an event line, a whitespace-only line and
\* another event line.
C7_Witness ==
    /\ mode = "parse" /\ ret.returned
    /\ Len(lines) = 3
    /\ IsObjectLine(lines[1]) /\ lines[2] = <<Ws, Ws>> /\ IsObjectLine(lines[3])
    /\ Len(ret.events) = 2
    /\ ret.events[1] # ret.events[2]

\* C8: when line N is the first malformed line (after blank and valid event
\* lines only), parse never returns a collection, the generator never
\* completes normally, the events yielded are at all times a prefix of the
\* events of the lines before N, and when the error is raised they are exactly
\* those events: no event of a later line is produced.
C8_FailStop ==
    (fs = "ok" /\ FirstMalformed # 0 /\ OnlyEventLinesBefore(FirstMalformed)) =>
        LET before == EventsOfLines(SubSeq(lines, 1, FirstMalformed - 1))
        IN /\ ret = NoCollection
           /\ gen # "finished"
           /\ IsPrefix(yielded, before)
           /\ gen = "raised" => yielded = before /\ perr # NoError

\* The streaming consumer got the one event before the malformed line 2 and
\* then the error; the event line 3 was never produced.
C8_Witness ==
    /\ mode = "iter" /\ gen = "raised"
    /\ Len(lines) = 3
    /\ IsObjectLine(lines[1]) /\ IsMalformedLine(lines[2]) /\ IsObjectLine(lines[3])
    /\ Len(yielded) = 1

\* C12: a path that resolves to no file makes parse and the consumption of
\* iter_events fail with pyclef.exceptions.ClefFileNotFoundError carrying the
\* path; any other failure to open or read the file gives the ClefIOError
\* carrying the path and the cause.
C12_OpenFailures ==
    /\ fs # "ok" => gen \notin {"finished", "suspended"}
    /\ (fs = "missing" /\ gen = "raised") =>
          /\ IsInstance(perr, <<"pyclef.exceptions", "ClefFileNotFoundError">>)
          /\ "file_path" \in perr.attrs
    /\ (fs \in {"unreadable", "broken"} /\ gen = "raised" /\ perr.cause = "OSError") =>
          /\ perr.type = "ClefIOError"
          /\ {"file_path", "original_error"} \subseteq perr.attrs

\* C13: every failure raised by parse or iter_events is an instance of the
\* base class ClefParseError (here: of pyclef.exceptions, or the one the
\* parser module defines), also for a line holding JSON that is no object.
C13_AllFailuresAreClefParseError ==
    gen = "raised" =>
        \/ IsInstance(perr, <<"pyclef.exceptions", "ClefParseError">>)
        \/ IsInstance(perr, <<"pyclef.parser", "ClefParseError">>)

\* C15: a streaming consumer that has got k events and stops has made the
\* generator read no line after the line of the k-th event (none at all for
\* k = 0): whatever the later lines hold, no error is raised, neither at the
\* k-th event nor by stopping.
C15_EarlyStopReadsNoFurther ==
    (fs = "ok" /\ mode = "iter" /\ gen \in {"suspended", "closed"}) =>
        /\ perr = NoError
        /\ IF yielded = <<>> THEN line_num = 0
           ELSE /\ line_num \in 1..Len(lines)
                /\ IsObjectLine(lines[line_num])
                /\ yielded = EventsOfLines(SubSeq(lines, 1, line_num))

\* The consumer took the event of line 1 and stopped; line 2 is malformed
\* and no error was raised.
C15_Witness ==
    /\ mode = "iter" /\ gen = "closed"
    /\ Len(lines) = 3
    /\ IsObjectLine(lines[1]) /\ IsMalformedLine(lines[2])
    /\ Len(yielded) = 1 /\ line_num = 1
    /\ perr = NoError

GenEnded == gen \in {"finished", "raised", "closed"}

\* C16: the file handle is open only while the generator is suspended at a
\* yield: it is not open before the first element is requested, it is opened
\* by that first request only, it is closed when the generator ends (source
\* exhausted, error raised, generator closed by the consumer), and from then
\* on the generator stays ended and the handle closed.
C16_HandleLifecycle ==
    /\ [](fopen => gen = "suspended")
    /\ [][ /\ (fopen' /\ ~fopen) => gen = "created"
           /\ GenEnded => (gen' = gen /\ ~fopen') ]_vars

\* The consumer got two events (the handle was open in between) and closed
\* the generator before the last line: the handle is closed.
C16_Witness ==
    /\ mode = "iter" /\ gen = "closed" /\ ~fopen
    /\ Len(lines) = 3 /\ Len(yielded) = 2 /\ line_num = 2

-----------------------------------------------------------------------------
(* Claims about ClefEventFilterBuilder, checked under SpecFilter           *)

\* The criteria that are configured (an attribute left at None is not).
SetFields(c) == { f \in DOMAIN c : c[f] # None }

\* The configuration of a fresh builder given criterion f of c only.
Only(c, f) == [g \in DOMAIN c |-> IF g = f THEN c[g] ELSE None]

\* The configuration c with the criteria named in cleared set back to None.
Without(c, cleared) == [g \in DOMAIN c |-> IF g \in cleared THEN None ELSE c[g]]

\* What filter() of a fresh builder configured as c returns for the events.
ResultOf(c) ==
    FilterLoop(events, c, 1,
        [filtered |-> <<>>, skipped |-> 0, warned |-> <<>>, evaluated |-> 0]).filtered

Range(s) == { s[i] : i \in 1..Len(s) }

\* The events of s that are also in u, in the order of s.
InBoth(s, u) == SelectSeq(s, LAMBDA e : e \in Range(u))

FilterDone == fpc \in {"returned", "raised"}

\* C1 (as stated): with any two criteria A and B configured, filter() returns
\* exactly the events that are in the result for A alone and in the result
\* for B alone, in source order.
C1_AndComposition ==
    (FilterDone /\ Cardinality(SetFields(cfg)) = 2) =>
        /\ fpc = "returned"
        /\ \A a, b \in SetFields(cfg) :
              a # b => filtered = InBoth(ResultOf(Only(cfg, a)), ResultOf(Only(cfg, b)))

\* A start and an end bound that filter() does not accept together: start
\* later than end, or one with and one without an offset.
RangeRejected(c) ==
    /\ c.start_time # None /\ c.end_time # None
    /\ LET s == ParseTime(c.start_time)
           e == ParseTime(c.end_time)
       IN s.aware # e.aware \/ s.wall > e.wall

\* C1 (amended): the same, except when A and B are a start and an end bound
\* that filter() rejects; then filter() raises ClefFilterError and returns
\* nothing.
C1_AndCompositionUnlessRangeRejected ==
    (FilterDone /\ Cardinality(SetFields(cfg)) = 2) =>
        IF RangeRejected(cfg)
        THEN fpc = "raised" /\ ferr.type = "ClefFilterError" /\ filtered = <<>>
        ELSE /\ fpc = "returned"
             /\ \A a, b \in SetFields(cfg) :
                   a # b =>
                     filtered = InBoth(ResultOf(Only(cfg, a)), ResultOf(Only(cfg, b)))

\* level and msg_regex are configured on two events; level alone keeps both,
\* the message pattern alone keeps one, and filter() returned that one.
C1_Witness ==
    /\ fpc = "returned"
    /\ SetFields(cfg) = {"level", "msg_pattern"}
    /\ Len(events) = 2
    /\ Len(ResultOf(Only(cfg, "level"))) = 2
    /\ Len(ResultOf(Only(cfg, "msg_pattern"))) = 1
    /\ Len(filtered) = 1

\* C9: with start and end configured and start strictly later than end,
\* filter() raises ClefFilterError having evaluated no event and returns no
\* collection; no setter raises that error (both values are accepted by the
\* setters); start equal to end is not rejected.
C9_InvertedRangeRejected ==
    /\ fpc = "config" => ferr.type # "ClefFilterError"
    /\ (FilterDone /\ cfg.start_time # None /\ cfg.end_time # None) =>
          LET s == ParseTime(cfg.start_time)
              e == ParseTime(cfg.end_time)
          IN /\ (s.aware = e.aware /\ s.wall > e.wall) =>
                   /\ fpc = "raised"
                   /\ ferr.type = "ClefFilterError"
                   /\ fidx = 0
                   /\ filtered = <<>>
             /\ (s.aware = e.aware /\ s.wall = e.wall) =>
                   fpc = "returned" /\ ferr = NoError /\ fidx = Len(events)

\* start "2Z" and end "1Z" were both accepted, and filter() on two events
\* raised ClefFilterError without evaluating one.
C9_Witness ==
    /\ fpc = "raised"
    /\ cfg.start_time = S(<<"2", "Z">>) /\ cfg.end_time = S(<<"1", "Z">>)
    /\ Len(events) = 2
    /\ ferr.type = "ClefFilterError"
    /\ fidx = 0

\* t >= b and t <= b on parsed timestamps that can be ordered.
AtOrAfter(t, b) == t.aware = b.aware /\ t.wall >= b.wall
AtOrBefore(t, b) == t.aware = b.aware /\ t.wall <= b.wall

\* C10: the bounds are inclusive: an event with a parseable timestamp t is in
\* the result exactly if (no start is set or t >= start) and (no end is set or
\* t <= end) and it is in the result of the same criteria without time bounds.
C10_InclusiveBounds ==
    fpc = "returned" =>
        \A i \in 1..Len(events) :
            LET ts == Get(events[i].reified, TIMESTAMP)
                t == ParseTime(ts)
                inTime ==
                    /\ cfg.start_time = None \/ AtOrAfter(t, ParseTime(cfg.start_time))
                    /\ cfg.end_time = None \/ AtOrBefore(t, ParseTime(cfg.end_time))
            IN t.ok =>
                 ( events[i] \in Range(filtered)
                     <=> ( inTime /\ events[i] \in
                             Range(ResultOf(Without(cfg, {"start_time", "end_time"}))) ) )

\* start "2Z" and end "2+00:00": the event at "2Z", equal to both bounds, is
\* returned and the event at "1Z" is not.
C10_Witness ==
    /\ fpc = "returned"
    /\ cfg.start_time = S(<<"2", "Z">>) /\ cfg.end_time = S(<<"2", "+">>)
    /\ Len(events) = 2
    /\ Get(events[1].reified, TIMESTAMP) = S(<<"1", "Z">>)
    /\ Get(events[2].reified, TIMESTAMP) = S(<<"2", "Z">>)
    /\ filtered = <<events[2]>>

\* A time bound is configured.
TimeBoundSet(c) == c.start_time # None \/ c.end_time # None

\* The event has a timestamp (present and not empty).
HasTimestamp(e) == Get(e.reified, TIMESTAMP) \notin {None, S(<<>>)}

\* The evaluation of the event fails under c: a time bound is set and the
\* event's timestamp cannot be parsed, or can be parsed but not be ordered
\* against a bound (one has an offset, the other has none).
FailsLocally(e, c) ==
    /\ TimeBoundSet(c) /\ HasTimestamp(e)
    /\ LET t == ParseTime(Get(e.reified, TIMESTAMP))
       IN \/ ~t.ok
          \/ \E b \in {"start_time", "end_time"} :
                c[b] # None /\ ParseTime(c[b]).aware # t.aware

\* filter() on a collection of this event alone returns it.
PassesAlone(e, c) ==
    FilterLoop(<<e>>, c, 1,
        [filtered |-> <<>>, skipped |-> 0, warned |-> <<>>, evaluated |-> 0]).filtered = <<e>>

RECURSIVE IsSubsequence(_, _)
IsSubsequence(s, u) ==
    IF s = <<>> THEN TRUE
    ELSE IF u = <<>> THEN FALSE
    ELSE IF Head(s) = Head(u) THEN IsSubsequence(Tail(s), Tail(u))
    ELSE IsSubsequence(s, Tail(u))

\* C28: what filter() returns is a subsequence of the source collection;
\* with no criterion configured it is the whole source; for an empty source
\* it is empty; when filter() raises there is no result.
C28_ResultIsSubsequence ==
    /\ fpc = "returned" =>
          /\ IsSubsequence(filtered, events)
          /\ SetFields(cfg) = {} => filtered = events
          /\ events = <<>> => filtered = <<>>
    /\ fpc = "raised" => filtered = <<>>

\* C28 witness: under some criterion filter() returned both of two
\* different events.
C28_Witness ==
    /\ fpc = "returned"
    /\ SetFields(cfg) # {}
    /\ Len(events) = 2 /\ events[1] # events[2]
    /\ filtered = events

\* C29: when filter() returns, the aggregate warning is the last warning it
\* emitted and the only one of its kind if the evaluation of at least one
\* event failed, and it reports the number of these events, which is the
\* skip counter; otherwise there is none. When filter() raises there is none.
C29_AggregateWarning ==
    /\ fpc = "returned" =>
          LET n == Cardinality({ i \in 1..Len(events) : FailsLocally(events[i], cfg) })
              aggregate == SelectSeq(warned, LAMBDA w : w.kind = "aggregate")
          IN /\ skipped_count = n
             /\ IF n = 0 THEN aggregate = <<>>
                ELSE /\ aggregate = <<Warning("aggregate", n)>>
                     /\ warned[Len(warned)] = Warning("aggregate", n)
                     /\ Len(warned) = n + 1
    /\ fpc = "raised" => warned = <<>>

\* C29 witness: start "2Z"; one event has an unparseable timestamp, the
\* other one a timestamp without an offset; both were skipped and the
\* aggregate warning reports 2.
C29_Witness ==
    /\ fpc = "returned"
    /\ cfg.start_time = S(<<"2", "Z">>)
    /\ Len(events) = 2
    /\ Get(events[1].reified, TIMESTAMP) = S(<<"x">>)
    /\ Get(events[2].reified, TIMESTAMP) = S(<<"2">>)
    /\ filtered = <<>>
    /\ warned[3] = Warning("aggregate", 2)

-----------------------------------------------------------------------------
(* Claims about the setters of ClefEventFilterBuilder, checked under       *)
(* SpecSetters                                                             *)

LastCall == history[Len(history)]

\* The last step was a setter call (filter() has not run since).
AfterSetter == history # <<>> /\ fpc = "config"

\* The criterion attribute the setter of that name assigns.
CriterionOf(name) ==
    CASE name = "msg_regex" -> "msg_pattern"
      [] name = "msg_template_regex" -> "msg_template_pattern"
      [] name = "exception_regex" -> "exception_pattern"
      [] name = "renderings_regex" -> "renderings_pattern"
      [] OTHER -> name

InvalidArgument(e) == e.module = "builtins" /\ e.type = "ValueError"

\* C11: every setter validates its argument at the call: start_time and
\* end_time raise ClefInvalidTimestampError carrying the string for a
\* non-empty unparseable one and an invalid-argument error for an empty one;
\* level and the regex setters raise an invalid-argument error for an empty
\* string, the regex setters also for a pattern that does not compile;
\* user_fields raises for None; eventid never raises; every other argument is
\* stored. So every stored criterion is valid and filter() raises none of
\* these errors.
C11_SettersValidateAtCall ==
    /\ AfterSetter =>
          LET name == LastCall[1]
              value == LastCall[2]
              stored == ferr = NoError /\ cfg[CriterionOf(name)] = value
          IN CASE name \in {"start_time", "end_time"} ->
                    IF value = S(<<>>) THEN InvalidArgument(ferr)
                    ELSE IF ~ParseTime(value).ok
                    THEN /\ ferr.type = "ClefInvalidTimestampError"
                         /\ ferr.timestamp = value
                    ELSE stored
               [] name = "level" ->
                    IF value = S(<<>>) THEN InvalidArgument(ferr) ELSE stored
               [] name \in {"msg_regex", "msg_template_regex", "exception_regex",
                            "renderings_regex"} ->
                    IF value = S(<<>>) \/ ~Compiles(value.v) THEN InvalidArgument(ferr)
                    ELSE stored
               [] name = "user_fields" ->
                    IF value = None THEN InvalidArgument(ferr) ELSE stored
               [] OTHER -> stored
    /\ \A f \in {"start_time", "end_time"} : cfg[f] # None => ParseTime(cfg[f]).ok
    /\ \A f \in {"level", "msg_pattern", "msg_template_pattern", "exception_pattern",
                  "renderings_pattern"} : cfg[f] # None => cfg[f] # S(<<>>)
    /\ fpc # "config" =>
          ~InvalidArgument(ferr) /\ ferr.type # "ClefInvalidTimestampError"

\* level("E") was stored, then end_time("x") raised ClefInvalidTimestampError
\* carrying "x", at the call.
C11_Witness ==
    /\ history = << <<"level", S(<<"E">>)>>, <<"end_time", S(<<"x">>)>> >>
    /\ fpc = "config"
    /\ ferr.type = "ClefInvalidTimestampError"
    /\ ferr.timestamp = S(<<"x">>)
    /\ cfg.level = S(<<"E">>)

BaseCategory == <<"pyclef.exceptions", "ClefParseError">>

\* C14 (as stated): every failure raised by a setter or by filter() is an
\* instance of the base class ClefParseError.
C14_FilterFailuresAreClefParseError ==
    ferr # NoError => IsInstance(ferr, BaseCategory)

\* C14 (amended): a failure of filter() is a ClefFilterError and so a
\* ClefParseError; a failure of start_time or end_time on a non-empty string
\* is a ClefInvalidTimestampError and so a ClefParseError; every other
\* failure of a setter (empty argument, pattern that does not compile,
\* user_fields(None)) is the builtin ValueError, which is no ClefParseError.
C14_OnlyArgumentErrorsOutsideBase ==
    ferr # NoError =>
        IF fpc # "config"
        THEN /\ IsInstance(ferr, <<"pyclef.filter", "ClefFilterError">>)
             /\ IsInstance(ferr, BaseCategory)
        ELSE IF LastCall[1] \in {"start_time", "end_time"} /\ LastCall[2] # S(<<>>)
        THEN /\ IsInstance(ferr, <<"pyclef.filter", "ClefInvalidTimestampError">>)
             /\ IsInstance(ferr, BaseCategory)
        ELSE InvalidArgument(ferr) /\ ~IsInstance(ferr, BaseCategory)

\* start_time("2") and end_time("2+00:00") were accepted and filter() raised
\* the ClefFilterError of the failure outside the loop.
C14_Witness ==
    /\ history = << <<"start_time", S(<<"2">>)>>, <<"end_time", S(<<"2", "+">>)>> >>
    /\ fpc = "raised"
    /\ ferr = FilterFailedErr
    /\ IsInstance(ferr, BaseCategory)

-----------------------------------------------------------------------------
(* Claims about ClefParser.event_filter, checked under SpecEventFilter     *)

\* C17: after the same calls, the builder event_filter returned and the
\* builder of pyclef.filter are at the same outcome: the last call raised in
\* both or in neither, the same kind of error, and filter() returned the
\* same sequence of events.
C17_EventFilterIsFilterBuilder ==
    /\ pfpc = fpc
    /\ pferr.type = ferr.type
    /\ pfiltered = filtered

-----------------------------------------------------------------------------
(* Claims about repeated filter() calls, checked under SpecRefilter        *)

FilterCalled == made' = made + 1

\* What filter() returns for the criteria and the events as they are after
\* the step, evaluated on a builder that has never run.
FromScratch ==
    FilterLoop(events', cfg', 1,
        [filtered |-> <<>>, skipped |-> 0, warned |-> <<>>, evaluated |-> 0])

\* C18: a filter() call leaves the nine criteria and the source collection
\* as they were; when it returns, it has evaluated every event of the source
\* against the criteria now configured and returns what a first run would,
\* in a collection object that did not exist before; called right after a
\* filter() that returned, it returns again, a different collection object
\* with the same contents.
C18_FilterHasNoSideEffect ==
    [][ FilterCalled =>
          /\ cfg' = cfg /\ events' = events
          /\ (fpc' = "returned" =>
                /\ filtered' = FromScratch.filtered
                /\ fidx' = Len(events)
                /\ result' > made)
          /\ (fpc = "returned" =>
                /\ fpc' = "returned"
                /\ filtered' = filtered
                /\ result' # result) ]_vars

\* C18 witness: three filter() calls and one setter call (so two of the
\* filter() calls were consecutive), the last one returned some but not all
\* events of the source, under a criterion that is set.
C18_Witness ==
    /\ made = 3 /\ calls = 1 /\ fpc = "returned"
    /\ SetFields(cfg) # {}
    /\ result = 3
    /\ Len(filtered) = 1 /\ Len(events) = 2

-----------------------------------------------------------------------------
(* Claims about ClefEventCollection, checked under SpecCollection          *)

\* S[index] was the last call and got.out is its outcome.
Indexed == got.out.kind # "none"

\* C19: S iterates over the events given to add_event in call order, one
\* per call; S[i] for an integer i is the i-th of them for 0 <= i < N, the
\* one at N + i for -N <= i < 0, and raises IndexError for every other
\* integer.
C19_IndexAndAppend ==
    /\ lists[coll] = added
    /\ (Indexed /\ got.index.ty = "int") =>
          LET n == Len(added)
              i == got.index.v
          IN IF 0 <= i /\ i < n THEN got.out = Returned("event", added[i + 1])
             ELSE IF 0 - n <= i /\ i < 0 THEN got.out = Returned("event", added[n + i + 1])
             ELSE got.out.kind = "IndexError"

\* C19 witness: S holds two different events and S[-(N+1)] raised.
C19_Witness ==
    /\ Len(added) = 2 /\ added[1] # added[2]
    /\ Indexed
    /\ got.index = N(0 - 3)
    /\ got.out.kind = "IndexError"

\* The positions (from 0) a slice selects in a list of n elements, as a set:
\* a negative start or stop counts from the end, what lies outside the list
\* is cut off, and the positions are a step apart from the first one.
StepOf(sl) == IF sl.step = None THEN 1 ELSE sl.step.v
FromEnd(x, n) == IF x.v < 0 THEN x.v + n ELSE x.v
FirstPosition(sl, n) ==
    IF StepOf(sl) > 0
    THEN IF sl.start = None THEN 0 ELSE Max(0, FromEnd(sl.start, n))
    ELSE IF sl.start = None THEN n - 1 ELSE Min(n - 1, FromEnd(sl.start, n))
SelectedPositions(sl, n) ==
    LET first == FirstPosition(sl, n)
    IN IF StepOf(sl) > 0
       THEN { q \in 0..(n - 1) :
                /\ q >= first
                /\ (sl.stop # None => q < FromEnd(sl.stop, n))
                /\ (q - first) % StepOf(sl) = 0 }
       ELSE { q \in 0..(n - 1) :
                /\ q <= first
                /\ (sl.stop # None => q > FromEnd(sl.stop, n))
                /\ (first - q) % (0 - StepOf(sl)) = 0 }

\* The elements of evs at the selected positions, in slice order.
Selected(evs, sl) ==
    [ k \in 1..Cardinality(SelectedPositions(sl, Len(evs))) |->
        evs[FirstPosition(sl, Len(evs)) + (k - 1) * StepOf(sl) + 1] ]

Reversed(evs) == [ k \in 1..Len(evs) |-> evs[Len(evs) + 1 - k] ]

WholeReversed == Slice(None, None, N(0 - 1))

\* What the claim says of the outcome of S[slice]: a collection with a list
\* of its own that holds the selected elements of S.
SliceReturnedNew ==
    /\ got.out = Returned("collection", sliced)
    /\ sliced # coll
    /\ lists[sliced] = Selected(lists[coll], got.index)
    /\ (got.index = WholeReversed =>
          /\ lists[sliced] = Reversed(lists[coll])
          /\ ListSlice(lists[sliced], WholeReversed) = lists[coll])

\* C20 (as stated): S[slice] returns a new collection of the selected
\* elements for any start, stop and step.
C20_AnySliceReturnsNew ==
    (Indexed /\ got.index.ty = "slice") => SliceReturnedNew

\* C20 (amended): S[slice] with a step that is not 0 returns a new
\* collection of the selected elements, S[::-1] S's events in reverse order
\* which reversed again are in S's order; with a step of 0 it raises
\* ValueError. No S[index] changes S; add_event on S does not change the
\* slice, and add_event on the slice does not change S.
C20_SliceReturnsNewUnlessStepZero ==
    /\ []( (Indexed /\ got.index.ty = "slice") =>
              IF StepOf(got.index) = 0 THEN got.out.kind = "ValueError"
              ELSE SliceReturnedNew )
    /\ [][ /\ got'.out.kind # "none" => lists'[coll] = lists[coll]
           /\ (sliced # 0 /\ lists'[coll] # lists[coll]) =>
                 (sliced' = sliced /\ lists'[sliced] = lists[sliced])
           /\ (sliced # 0 /\ sliced' = sliced /\ lists'[sliced] # lists[sliced]) =>
                 lists'[coll] = lists[coll] ]_vars

\* C20 witness: S of two different events was reversed by S[::-1] and an
\* event was added to the slice: the slice holds three events, S two.
C20_Witness ==
    /\ got.index = WholeReversed
    /\ sliced # 0
    /\ Len(lists[coll]) = 2
    /\ lists[coll][1] # lists[coll][2]
    /\ Len(lists[sliced]) = 3
    /\ lists[sliced][1] = lists[coll][2] /\ lists[sliced][2] = lists[coll][1]

-----------------------------------------------------------------------------
(* Claims about ClefEventCollection.filter and get_all_events, checked     *)
(* under SpecDerived                                                       *)

\* The elements of s that are in the set kept, in the order of s.
RECURSIVE Keep(_, _)
Keep(s, kept) ==
    IF s = <<>> THEN <<>>
    ELSE IF Head(s) \in kept THEN <<Head(s)>> \o Keep(Tail(s), kept)
    ELSE Keep(Tail(s), kept)

\* C21: S holds the events added and nothing else, whatever the caller did
\* to what filter and get_all_events returned; after S.filter(predicate) the
\* collection returned is another object than S and holds exactly the events
\* of S the predicate is true of, in S's order; every get_all_events call
\* returns a list that was not there before, is not the list of S and holds
\* S's events, and leaves S as it was.
C21_FilterAndCopyAreNew ==
    /\ []( /\ lists[coll] = added
           /\ copied # coll
           /\ Indexed =>
                 /\ got.out = Returned("collection", sliced)
                 /\ sliced # coll
                 /\ lists[sliced] = Keep(lists[coll], got.index.v) )
    /\ [][ copied' # copied =>
             /\ copied' \notin DOMAIN lists
             /\ lists'[copied'] = lists[coll]
             /\ lists'[coll] = lists[coll] ]_vars

\* C21 witness: S holds two different events, filter kept one of them, and
\* the list get_all_events returned has been emptied by the caller.
C21_Witness ==
    /\ Len(lists[coll]) = 2 /\ lists[coll][1] # lists[coll][2]
    /\ Indexed
    /\ Len(lists[sliced]) = 1
    /\ copied # 0 /\ lists[copied] = <<>>

-----------------------------------------------------------------------------
(* Claims about single criteria of filter(), checked under SpecRefilter    *)

\* cfg with criterion f as the only one.
OnlyCriterion(f) == SetFields(cfg) = {f}

\* C23: with user_fields as the only criterion, filter() returns exactly the
\* events that have every key of the criteria mapping among their user
\* fields, with an equal value; an empty mapping is stored by the setter and
\* excludes no event.
C23_UserFieldsPresentAndEqual ==
    (fpc = "returned" /\ OnlyCriterion("user_fields")) =>
        filtered = SelectSeq(events,
           LAMBDA e : \A k \in DOMAIN cfg.user_fields.v :
                         k \in DOMAIN e.user /\ e.user[k] = cfg.user_fields.v[k])

\* The event with its timestamp set to ts.
WithTimestamp(e, ts) == [e EXCEPT !.reified = Put(e.reified, TIMESTAMP, ts)]

\* C24: when filter() returns with a time bound set, no event without a
\* timestamp is in the result and none of them is counted as skipped; with
\* no time bound set, an event without a timestamp is returned exactly if it
\* would be with a timestamp.
C24_MissingTimestampExcluded ==
    fpc = "returned" =>
        /\ TimeBoundSet(cfg) =>
              /\ \A i \in 1..Len(events) :
                    ~HasTimestamp(events[i]) => events[i] \notin Range(filtered)
              /\ skipped_count <= Cardinality({ i \in 1..Len(events) : HasTimestamp(events[i]) })
              /\ Len(warned) <= 1 + Cardinality({ i \in 1..Len(events) : HasTimestamp(events[i]) })
              /\ (\A i \in 1..Len(events) : ~HasTimestamp(events[i])) => warned = <<>>
        /\ ~TimeBoundSet(cfg) =>
              \A i \in 1..Len(events) :
                 ~HasTimestamp(events[i]) =>
                    ( events[i] \in Range(filtered)
                        <=> PassesAlone(WithTimestamp(events[i], S(<<"1", "Z">>)), cfg) )

\* C24 witness: end "3Z"; the first event at "1Z" was returned, the second
\* one has no timestamp and was excluded; nothing was skipped or warned.
C24_Witness ==
    /\ fpc = "returned"
    /\ cfg.end_time = S(<<"3", "Z">>)
    /\ Len(events) = 2
    /\ ~HasTimestamp(events[2])
    /\ filtered = <<events[1]>>
    /\ skipped_count = 0 /\ warned = <<>>

\* The pattern matches all of the text w: literals, "." for any character,
\* and a postfix "*" for any number of repetitions.
RECURSIVE FullMatch(_, _)
FullMatch(re, w) ==
    IF re = <<>> THEN w = <<>>
    ELSE IF Len(re) >= 2 /\ re[2] = "*"
    THEN \E k \in 0..Len(w) :
            /\ \A i \in 1..k : re[1] = "." \/ re[1] = w[i]
            /\ FullMatch(SubSeq(re, 3, Len(re)), SubSeq(w, k + 1, Len(w)))
    ELSE /\ w # <<>>
         /\ (re[1] = "." \/ re[1] = w[1])
         /\ FullMatch(Tail(re), Tail(w))

\* Some piece of the text (possibly an empty one) is matched by the pattern.
MatchesInside(re, text) ==
    \E i \in 1..(Len(text) + 1) : \E j \in (i - 1)..Len(text) :
        FullMatch(re, SubSeq(text, i, j))

\* The text of a field of the event: empty if the event lacks the field.
FieldText(e, field) ==
    IF field \in DOMAIN e.reified THEN Str(e.reified[field]) ELSE <<>>

\* C25: with one of the four pattern criteria as the only criterion,
\* filter() returns exactly the events whose field text has a piece the
\* pattern matches, the text of a missing field being empty.
C25_PatternSearchesFieldText ==
    \A i \in 1..4 :
        (fpc = "returned" /\ OnlyCriterion(PatternFields[i][1])) =>
            filtered = SelectSeq(events,
               LAMBDA e : MatchesInside(cfg[PatternFields[i][1]].v,
                                        FieldText(e, PatternFields[i][2])))

\* C25 witness: the message pattern "a"; the first event has the message
\* "ab" and was returned, the second one has no message and was not.
C25_Witness ==
    /\ fpc = "returned"
    /\ OnlyCriterion("msg_pattern") /\ cfg.msg_pattern = S(<<"a">>)
    /\ Len(events) = 2
    /\ Get(events[1].reified, MESSAGE) = S(<<"a", "b">>)
    /\ MESSAGE \notin DOMAIN events[2].reified
    /\ filtered = <<events[1]>>

\* C26: with level as the only criterion, filter() returns exactly the
\* events that have a level field equal to the configured string.
C26_LevelExactEquality ==
    (fpc = "returned" /\ OnlyCriterion("level")) =>
        filtered = SelectSeq(events,
           LAMBDA e : LEVEL \in DOMAIN e.reified /\ e.reified[LEVEL] = cfg.level)

\* C26 witness: level "E"; the first event has level "E" and was returned,
\* the second one has level "e" and was not.
C26_Witness ==
    /\ fpc = "returned"
    /\ OnlyCriterion("level") /\ cfg.level = S(<<"E">>)
    /\ Len(events) = 2
    /\ Get(events[2].reified, LEVEL) = S(<<"e">>)
    /\ filtered = <<events[1]>>

-----------------------------------------------------------------------------
(* Claims about single setters, checked under SpecSetters                  *)

\* The event without its event-id field.
WithoutEventId(e) ==
    [e EXCEPT !.reified = [k \in DOMAIN e.reified \ {EVENT_ID} |-> e.reified[k]]]

\* C27: eventid(v) raises for no v and stores v; with a non-null event id
\* as the only criterion, filter() returns exactly the events that have an
\* event-id field equal to it; after eventid(None) the criterion is cleared
\* and an event is returned exactly if it is without its event id.
C27_EventIdEquality ==
    /\ (AfterSetter /\ LastCall[1] = "eventid") =>
          ferr = NoError /\ cfg.eventid = LastCall[2]
    /\ (fpc = "returned" /\ OnlyCriterion("eventid")) =>
          filtered = SelectSeq(events,
             LAMBDA e : EVENT_ID \in DOMAIN e.reified /\ e.reified[EVENT_ID] = cfg.eventid)
    /\ (fpc = "returned" /\ history # <<>> /\ LastCall = <<"eventid", None>>) =>
          /\ cfg.eventid = None
          /\ \A i \in 1..Len(events) :
                events[i] \in Range(filtered) <=> PassesAlone(WithoutEventId(events[i]), cfg)

\* C27 witness: eventid(0) was called and filter() returned nothing for the
\* one event, whose event id is 1.
C27_Witness ==
    /\ history = << <<"eventid", N(0)>> >>
    /\ fpc = "returned"
    /\ Len(events) = 1 /\ Get(events[1].reified, EVENT_ID) = N(1)
    /\ filtered = <<>>

\* The setter call name(value) raises: an empty argument, a timestamp that
\* does not parse, a pattern that does not compile, user_fields(None).
RaisingCall(name, value) ==
    CASE name \in {"start_time", "end_time"} -> value = S(<<>>) \/ ~ParseTime(value).ok
      [] name = "level" -> value = S(<<>>)
      [] name \in {"msg_regex", "msg_template_regex", "exception_regex",
                   "renderings_regex"} -> value = S(<<>>) \/ ~Compiles(value.v)
      [] name = "user_fields" -> value = None
      [] OTHER -> FALSE

\* The configuration of a fresh builder after the calls of h that do not
\* raise, the raising ones left out.
RECURSIVE WithoutFailedCalls(_)
WithoutFailedCalls(h) ==
    IF h = <<>> THEN NoCriteria
    ELSE LET c == WithoutFailedCalls(SubSeq(h, 1, Len(h) - 1))
             call == h[Len(h)]
         IN IF RaisingCall(call[1], call[2]) THEN c
            ELSE [c EXCEPT ![CriterionOf(call[1])] = call[2]]

\* C30: a setter call that raises leaves every criterion as it was and
\* returns nothing; one that succeeds assigns its argument to its own
\* criterion, leaves every other criterion as it was and returns the
\* builder; so the builder is always configured as if the raising calls
\* had never been made, and a later filter() returns or raises accordingly.
C30_SetterFrameEffect ==
    /\ [](/\ cfg = WithoutFailedCalls(history)
          /\ AfterSetter =>
                IF RaisingCall(LastCall[1], LastCall[2])
                THEN ferr # NoError /\ chain = "none"
                ELSE ferr = NoError /\ chain = "self"
          /\ fpc = "returned" => filtered = ResultOf(WithoutFailedCalls(history))
          /\ fpc = "raised" <=> (FilterDone /\ RangeRejected(WithoutFailedCalls(history))))
    /\ [][history' # history =>
            LET call == history'[Len(history')]
                own == CriterionOf(call[1])
            IN IF ferr' # NoError
               THEN cfg' = cfg /\ chain' = "none"
               ELSE /\ \A f \in DOMAIN cfg \ {own} : cfg'[f] = cfg[f]
                    /\ cfg'[own] = call[2]
                    /\ chain' = "self"]_vars

\* C30 witness: level("E") succeeded, level("") raised, and filter()
\* returned the one event of the source, whose level is "E".
C30_Witness ==
    /\ history = << <<"level", S(<<"E">>)>>, <<"level", S(<<>>)>> >>
    /\ fpc = "returned"
    /\ cfg.level = S(<<"E">>)
    /\ Len(events) = 1
    /\ filtered = events

====
